---- MODULE Spec2Model ----
(***************************************************************************)
(* State-machine model of the BareMetalM4 kernel core: the process table   *)
(* and its lifecycle (src/src/kernel/process.c), the scheduler, timer tick *)
(* and sleep (src/src/kernel/scheduler.c), the timer interrupt handler     *)
(* (src/src/drivers/timer.c), the semaphore (src/src/semaphore.c) and the  *)
(* kernel heap (src/src/mm/malloc.c).                                      *)
(***************************************************************************)
EXTENDS Integers, Sequences, FiniteSets, TLC

(* ------------------------------------------------------------------------ *)
(* Bounds of the model                                                      *)
(* ------------------------------------------------------------------------ *)

\* Number of PCB slots of the model (the source has 64, include/sched.h:84).
MAX_PROCESS == 4

\* The tick counter is capped so that the state space is finite.
MaxTicks == 6

\* Number of pages of the bitmap of the model (the source has 32768,
\* MEMORY_SIZE / PAGE_SIZE, pmm.c:23-24).
TOTAL_PAGES == 3

\* Width of unsigned long in the model (64 bits in the source): addresses
\* wrap at 2 ^ LONG_BITS.
LONG_BITS == 24

\* Width of int in the model (32 bits in the source), narrower than the
\* page index of an address as in the source, where an address has 52 bits
\* of page index: INT_BITS < LONG_BITS - 12.
INT_BITS == 4

\* Width of uint32_t in the model (32 bits in the source): the size given to
\* kmalloc wraps at 2 ^ UINT_BITS.
UINT_BITS == 16

(* ------------------------------------------------------------------------ *)
(* Program constants                                                        *)
(* ------------------------------------------------------------------------ *)

PROCESS_RUNNING == "RUNNING"
PROCESS_READY   == "READY"
PROCESS_BLOCKED == "BLOCKED"
PROCESS_ZOMBIE  == "ZOMBIE"
PROCESS_UNUSED  == "UNUSED"

BLOCK_REASON_NONE  == "NONE"
BLOCK_REASON_SLEEP == "SLEEP"
BLOCK_REASON_WAIT  == "WAIT"

\* Ticks a selected non-idle process receives (the header that sets the
\* value is not part of the sources; the scheduler only uses the name).
DEFAULT_QUANTUM == 2

\* sizeof(struct block_header): 8 (size) + 8 (next) + 1 (is_free) + 7 (padding)
HEADER_SIZE == 24

\* Size of a process stack, kmalloc(4096) in create_process
STACK_SIZE == 4096

\* Address of the linker symbol _end, where the heap starts
HeapStart == 1074790400

\* Size of the heap region given to kheap_init (64 MB in the source; the
\* model's region holds two process stacks, so that kmalloc can fail)
heap_size == 2 * (STACK_SIZE + HEADER_SIZE) + 8

\* Arguments given to sleep()
SleepArgs == {0, 1, 2}

\* Priorities given to create_process by its callers (shell.c:216 uses 0,
\* tests.c uses 10)
Priorities == {0, 10}

Slots == 0 .. (MAX_PROCESS - 1)

\* Page size of the physical memory manager
PAGE_SIZE == 4096

\* Indices of the pages the bitmap covers
Pages == 0 .. (TOTAL_PAGES - 1)

\* Number of values of an unsigned long and of an int
ULongMod == 2 ^ LONG_BITS
IntMod == 2 ^ INT_BITS

\* Number of values of a uint32_t
UIntMod == 2 ^ UINT_BITS

\* Number of entries of a translation table
TABLE_ENTRIES == 512

\* Virtual pages the processes access, as page numbers (address / PAGE_SIZE):
\* address 0 (kamikaze_test), 0x50000000 (test_demand), and the first two
\* pages above the two gigabytes that mem_init maps
VA_NULL == 0 \div PAGE_SIZE
VA_DEMAND == 1342177280 \div PAGE_SIZE
VA_HIGH == 2 * TABLE_ENTRIES * TABLE_ENTRIES
VA_HIGH2 == VA_HIGH + 1
VAs == { VA_NULL, VA_DEMAND, VA_HIGH, VA_HIGH2 }

\* L1_INDEX, L2_INDEX, L3_INDEX of include/mm/vmm.h, on page numbers
L1_INDEX(vpn) == (vpn \div (TABLE_ENTRIES * TABLE_ENTRIES)) % TABLE_ENTRIES
L2_INDEX(vpn) == (vpn \div TABLE_ENTRIES) % TABLE_ENTRIES
L3_INDEX(vpn) == vpn % TABLE_ENTRIES

\* The table entries that the accesses of the model can reach (the others
\* stay as they were initialised)
TableIdx == UNION { { L1_INDEX(v), L2_INDEX(v), L3_INDEX(v) } : v \in VAs }

\* A descriptor: valid is bit 0, table is bit 1 (PT_TABLE and PT_PAGE have
\* it, PT_BLOCK has not), addr the output address, user the MM_USER bit
Descriptor(valid, table, addr, user) ==
    [ valid |-> valid, table |-> table, addr |-> addr, user |-> user ]

\* The descriptor 0
NoDescriptor == Descriptor(FALSE, FALSE, 0, FALSE)

\* A table filled with zeroes
EmptyTable == [ x \in TableIdx |-> NoDescriptor ]

\* Exception classes of ESR_EL1 that handle_fault takes for a page fault,
\* and one that it does not (an instruction abort)
EC_DABT_EL1 == 36
EC_DABT_EL0 == 37
EC_IABT_EL1 == 33

\* No fault yet
NoFault == [ ec |-> 0, vpn |-> -1, el |-> 1 ]

\* No access to retry
NoAccess == [ vpn |-> -1, el |-> 1 ]

(* ------------------------------------------------------------------------ *)
(* State                                                                    *)
(* ------------------------------------------------------------------------ *)

VARIABLES
    process,          \* struct pcb process[MAX_PROCESS]
    current_process,  \* index of the PCB current_process points to
    num_process,      \* int num_process
    need_reschedule,  \* volatile int need_reschedule
    sys_timer_count,  \* volatile unsigned long sys_timer_count
    heap,             \* the block list of the kernel heap, in list order
    sem_count,        \* count of the semaphore sem_prueba
    sem_lock,         \* volatile int sem_lock
    pc,               \* position of each process in its own code
    irq,              \* position inside handle_timer_irq
    hist,             \* history: what the last step did
    slp,              \* history: tick and argument of each process's last sleep()
    run_ticks,        \* history: ticks a non-idle current process received since it was switched in
    born,             \* history: priority each process was created with
    waitq,            \* history: processes inside sem_wait, in the order they started waiting
    reg,              \* the value of num_process each process holds in a register, from its load to its store
    mem_map,          \* unsigned char mem_map[TOTAL_PAGES / 8], one bit per page
    phys_mem_start,   \* unsigned long phys_mem_start
    page_data,        \* contents of the memory page at phys_mem_start + i * PAGE_SIZE
    held,             \* history: addresses get_free_page returned, not passed to free_page since
    written,          \* history: the data last written into each page (0: never written)
    live,             \* history: [ptr, size] of the kmalloc requests of the heap operations, not freed since
    last_req,         \* history: size given to the last kmalloc of the heap operations
    kernel_pgd,       \* unsigned long kernel_pgd[512], the table map_page is given by handle_fault
    pt,               \* the descriptors stored in each page of the physical memory manager
    pending,          \* the memory access each process has to retry after handle_fault returned
    nfault,           \* history: executions of handle_fault for the pending access of each process
    last_fault        \* history: exception class, page and exception level of the last handle_fault

vars == << process, current_process, num_process, need_reschedule,
           sys_timer_count, heap, sem_count, sem_lock, pc, irq, hist, slp,
           run_ticks, born, waitq, reg, mem_map, phys_mem_start, page_data, held,
           written, live, last_req,
           kernel_pgd, pt, pending, nfault, last_fault >>

\* The state of the physical memory manager
pmm_vars == << mem_map, phys_mem_start, page_data, held, written >>

\* The history of the heap operations
heap_hist == << live, last_req >>

\* The state and the history of the memory managers
mem_vars == << pmm_vars, heap_hist, kernel_pgd, pt, pending, nfault, last_fault >>

\* What the operations of the processes and of the semaphore leave unchanged
mm_vars == << mem_vars, reg >>

\* The state of the virtual memory manager
vmm_vars == << kernel_pgd, pt, pending, nfault, last_fault >>

\* A PCB slot of the zero-initialised table (.bss)
ZeroPcb == [ state |-> PROCESS_UNUSED, pid |-> 0, priority |-> 0, quantum |-> 0,
             wake_up_time |-> 0, block_reason |-> BLOCK_REASON_NONE,
             stack_addr |-> 0 ]

\* History record of a step: the operation, the process that ran it, the PCB
\* its schedule() call selected (-1 when it made none) and the state that PCB
\* was in when it was chosen
Hist(op, caller, chosen, chosen_state) ==
    [ op |-> op, caller |-> caller, chosen |-> chosen, chosen_state |-> chosen_state ]

NoSleep == [ T |-> -1, n |-> 0 ]


(* ------------------------------------------------------------------------ *)
(* Kernel heap: src/src/mm/malloc.c                                         *)
(* The list is a sequence of blocks in list order (next is the successor in *)
(* the sequence); addr is the address of the block header.                  *)
(* ------------------------------------------------------------------------ *)

\* kheap_init: start aligned up to 16, one free block spanning the region
kheap_init(start_addr, end_addr) ==
    LET start == IF start_addr % 16 # 0 THEN start_addr + (16 - (start_addr % 16))
                 ELSE start_addr
    IN  << [ addr |-> start, size |-> (end_addr - start) - HEADER_SIZE, is_free |-> TRUE ] >>

\* The rounding of the size at the top of kmalloc, in the arithmetic of
\* uint32_t: the sum wraps at UIntMod
AlignSize(size) ==
    IF size % 16 # 0 THEN (size + (16 - (size % 16))) % UIntMod ELSE size

\* A search that wants a block strictly larger than the request: C16 depends
\* on a freed block of exactly the stack size being taken again
RECURSIVE FirstFitStrict(_, _, _)
FirstFitStrict(h, k, size) ==
    IF k > Len(h) THEN 0
    ELSE IF h[k].is_free /\ h[k].size > size THEN k
    ELSE FirstFitStrict(h, k + 1, size)

\* The while loop of kmalloc: index of the first free block that is large
\* enough, 0 when the walk reaches the end of the list
RECURSIVE FirstFit(_, _, _)
FirstFit(h, k, size) ==
    IF k > Len(h) THEN 0
    ELSE IF h[k].is_free /\ h[k].size >= size THEN k
    ELSE FirstFit(h, k + 1, size)

\* A split that forgets the header of the block it cuts when it places the
\* new block: C21 depends on the new header lying behind the payload
SplitBlockNoHeader(h, k, size) ==
    IF h[k].size > size + HEADER_SIZE + 16
    THEN SubSeq(h, 1, k - 1)
         \o << [ addr |-> h[k].addr, size |-> size, is_free |-> h[k].is_free ],
               [ addr |-> h[k].addr + size,
                 size |-> h[k].size - size,
                 is_free |-> TRUE ] >>
         \o SubSeq(h, k + 1, Len(h))
    ELSE h

\* The split of kmalloc: block k is cut to size and the rest becomes a new
\* free block linked after it
SplitBlock(h, k, size) ==
    IF h[k].size > size + HEADER_SIZE + 16
    THEN SubSeq(h, 1, k - 1)
         \o << [ addr |-> h[k].addr, size |-> size, is_free |-> h[k].is_free ],
               [ addr |-> h[k].addr + HEADER_SIZE + size,
                 size |-> h[k].size - size - HEADER_SIZE,
                 is_free |-> TRUE ] >>
         \o SubSeq(h, k + 1, Len(h))
    ELSE h

\* kmalloc: the new list and the returned pointer (0 is nullptr)
kmalloc(h, request) ==
    LET size == AlignSize(request)
        k    == FirstFit(h, 1, size)
    IN  IF k = 0 THEN [ heap |-> h, ptr |-> 0 ]
        ELSE LET s == SplitBlock(h, k, size)
             IN  [ heap |-> [ s EXCEPT ![k].is_free = FALSE ],
                   ptr  |-> s[k].addr + HEADER_SIZE ]

\* A kfree that merges nothing: C22 depends on the freed block absorbing
\* the remainder that the split left behind it
CoalesceNone(h, k) == h

\* A coalescing loop that adds the payload of the absorbed block and forgets
\* its header: C34 depends on the header being counted
RECURSIVE CoalesceNoHeader(_, _)
CoalesceNoHeader(h, k) ==
    IF k < Len(h) /\ h[k + 1].is_free
    THEN CoalesceNoHeader(SubSeq(h, 1, k - 1)
                          \o << [ h[k] EXCEPT !.size = @ + h[k + 1].size ] >>
                          \o SubSeq(h, k + 2, Len(h)), k)
    ELSE h

\* The coalescing loop of kfree: block k absorbs its successors while they are free
RECURSIVE Coalesce(_, _)
Coalesce(h, k) ==
    IF k < Len(h) /\ h[k + 1].is_free
    THEN Coalesce(SubSeq(h, 1, k - 1)
                  \o << [ h[k] EXCEPT !.size = @ + h[k + 1].size + HEADER_SIZE ] >>
                  \o SubSeq(h, k + 2, Len(h)), k)
    ELSE h

\* Index of the block whose payload starts at ptr ((struct block_header *)ptr - 1)
BlockOf(h, ptr) == CHOOSE k \in 1 .. Len(h) : h[k].addr = ptr - HEADER_SIZE

\* A kfree that releases nothing: C15 depends on the stack being released
kfreeNothing(h, ptr) == h

\* A kfree that also merges the freed block into a free predecessor: C35
\* depends on the loop looking forward only
kfreeMergePrev(h, ptr) ==
    IF ptr = 0 THEN h
    ELSE LET k == BlockOf(h, ptr)
             f == Coalesce([ h EXCEPT ![k].is_free = TRUE ], k)
         IN  IF k > 1 /\ f[k - 1].is_free THEN Coalesce(f, k - 1) ELSE f

\* kfree of a pointer that kmalloc returned
kfree(h, ptr) ==
    IF ptr = 0 THEN h
    ELSE LET k == BlockOf(h, ptr)
         IN  Coalesce([ h EXCEPT ![k].is_free = TRUE ], k)

(* ------------------------------------------------------------------------ *)
(* Scheduler: src/src/kernel/scheduler.c                                    *)
(* ------------------------------------------------------------------------ *)

\* An aging without the floor at 0: C27 depends on the test priority > 0
AgeNoFloor(p, cur) ==
    [ i \in Slots |->
        IF p[i].state = PROCESS_READY /\ i # p[cur].pid
        THEN [ p[i] EXCEPT !.priority = @ - 1 ]
        ELSE p[i] ]

\* Phase 1 of schedule(): every READY process other than the current one ages
AgeAll(p, cur) ==
    [ i \in Slots |->
        IF p[i].state = PROCESS_READY /\ i # p[cur].pid /\ p[i].priority > 0
        THEN [ p[i] EXCEPT !.priority = @ - 1 ]
        ELSE p[i] ]

\* A selection loop without the test of the state: C2 depends on that test
RECURSIVE ElectAnyFrom(_, _, _, _)
ElectAnyFrom(p, i, highest_priority_found, next_pid) ==
    IF i >= MAX_PROCESS THEN next_pid
    ELSE IF p[i].priority < highest_priority_found
         THEN ElectAnyFrom(p, i + 1, p[i].priority, i)
         ELSE ElectAnyFrom(p, i + 1, highest_priority_found, next_pid)

ElectAnyState(p) == ElectAnyFrom(p, 0, 1000, -1)

\* A selection loop that takes the greatest priority value instead of the
\* smallest: C9 depends on the direction of the comparison
RECURSIVE ElectMaxFrom(_, _, _, _)
ElectMaxFrom(p, i, highest_priority_found, next_pid) ==
    IF i >= MAX_PROCESS THEN next_pid
    ELSE IF /\ p[i].state \in { PROCESS_READY, PROCESS_RUNNING }
            /\ p[i].priority > highest_priority_found
         THEN ElectMaxFrom(p, i + 1, p[i].priority, i)
         ELSE ElectMaxFrom(p, i + 1, highest_priority_found, next_pid)

ElectMax(p) == ElectMaxFrom(p, 0, -1, -1)

\* A selection loop that compares with <=, so that among equal priorities
\* the last slot wins: C11 depends on the strict comparison
RECURSIVE ElectLastFrom(_, _, _, _)
ElectLastFrom(p, i, highest_priority_found, next_pid) ==
    IF i >= MAX_PROCESS THEN next_pid
    ELSE IF /\ p[i].state \in { PROCESS_READY, PROCESS_RUNNING }
            /\ p[i].priority <= highest_priority_found
         THEN ElectLastFrom(p, i + 1, p[i].priority, i)
         ELSE ElectLastFrom(p, i + 1, highest_priority_found, next_pid)

ElectLastTie(p) == ElectLastFrom(p, 0, 1000, -1)

\* Phase 2 of schedule(): the selection loop, from slot i on, with the best
\* priority and pid found so far
RECURSIVE ElectFrom(_, _, _, _)
ElectFrom(p, i, highest_priority_found, next_pid) ==
    IF i >= MAX_PROCESS THEN next_pid
    ELSE IF /\ p[i].state \in { PROCESS_READY, PROCESS_RUNNING }
            /\ p[i].priority < highest_priority_found
         THEN ElectFrom(p, i + 1, p[i].priority, i)
         ELSE ElectFrom(p, i + 1, highest_priority_found, next_pid)

Elect(p) == ElectFrom(p, 0, 1000, -1)

\* The fallback of schedule(): with nobody to run the kernel (PID 0) is taken
FallbackPid(next_pid) == IF next_pid = -1 THEN 0 ELSE next_pid

\* ... and is made READY when it was neither RUNNING nor READY
Salvage(p, next_pid) ==
    IF /\ next_pid = -1
       /\ p[0].state # PROCESS_RUNNING
       /\ p[0].state # PROCESS_READY
    THEN [ p EXCEPT ![0].state = PROCESS_READY ]
    ELSE p

\* A penalty without the test of the priority: C28 and C29 depend on the
\* penalty being given below 10 only
PenalizeAlways(p, next) ==
    [ p EXCEPT ![next].priority = @ + 2 ]

\* Phase 3 of schedule(): penalty of the selected process
Penalize(p, next) ==
    [ p EXCEPT ![next].priority = IF @ < 10 THEN @ + 2 ELSE @ ]

\* ... and its fresh quantum, unless it is the kernel
GiveQuantum(p, next) ==
    [ p EXCEPT ![next].quantum = IF p[next].pid > 0 THEN DEFAULT_QUANTUM ELSE @ ]

\* A switch that leaves the previous process RUNNING: C1 depends on the
\* demotion of the previous process
SwitchKeepPrev(p, prev, next) ==
    IF prev # next
    THEN [ p EXCEPT ![next].state = PROCESS_RUNNING ]
    ELSE p

\* A switch that makes the previous process READY whatever its state: C14
\* depends on the test of the state at the switch
SwitchDemoteAlways(p, prev, next) ==
    IF prev # next
    THEN [ p EXCEPT ![prev].state = PROCESS_READY,
                    ![next].state = PROCESS_RUNNING ]
    ELSE p

\* The switch at the end of schedule()
SwitchTo(p, prev, next) ==
    IF prev # next
    THEN [ p EXCEPT ![prev].state = IF @ = PROCESS_RUNNING THEN PROCESS_READY ELSE @,
                    ![next].state = PROCESS_RUNNING ]
    ELSE p

\* schedule(): the new table, the new current process, and the state the
\* selected PCB was in when the selection loop ended
schedule(p, cur) ==
    LET aged     == AgeAll(p, cur)
        next_pid == Elect(aged)
        next     == FallbackPid(next_pid)
        saved    == Salvage(aged, next_pid)
        charged  == GiveQuantum(Penalize(saved, next), next)
    IN  [ process      |-> SwitchTo(charged, cur, next),
          current      |-> next,
          chosen_state |-> aged[next].state ]

\* The quantum part of timer_tick(): the current process, when RUNNING and
\* not the kernel, loses one tick of quantum
TickQuantum(p, cur) ==
    IF p[cur].state = PROCESS_RUNNING /\ p[cur].pid > 0
    THEN [ p EXCEPT ![cur].quantum = @ - 1 ]
    ELSE p

\* A flag raised below zero only: C30 depends on the test quantum <= 0
TickFlagStrict(p, cur, flag) ==
    IF p[cur].state = PROCESS_RUNNING /\ p[cur].pid > 0 /\ p[cur].quantum < 0
    THEN 1
    ELSE flag

\* ... and need_reschedule is raised when the quantum is used up
TickFlag(p, cur, flag) ==
    IF p[cur].state = PROCESS_RUNNING /\ p[cur].pid > 0 /\ p[cur].quantum <= 0
    THEN 1
    ELSE flag

\* A wake-up loop that compares with < instead of <=: C7 depends on the
\* process being woken at the tick that reaches wake_up_time
WakeSleepersStrict(p, now) ==
    [ i \in Slots |->
        IF /\ p[i].state = PROCESS_BLOCKED
           /\ p[i].block_reason = BLOCK_REASON_SLEEP
           /\ p[i].wake_up_time < now
        THEN [ p[i] EXCEPT !.state = PROCESS_READY, !.block_reason = BLOCK_REASON_NONE ]
        ELSE p[i] ]

\* A wake-up loop without the test of the block reason: C32 depends on it
WakeAnyBlocked(p, now) ==
    [ i \in Slots |->
        IF /\ p[i].state = PROCESS_BLOCKED
           /\ p[i].wake_up_time <= now
        THEN [ p[i] EXCEPT !.state = PROCESS_READY, !.block_reason = BLOCK_REASON_NONE ]
        ELSE p[i] ]

\* The wake-up loop of timer_tick()
WakeSleepers(p, now) ==
    [ i \in Slots |->
        IF /\ p[i].state = PROCESS_BLOCKED
           /\ p[i].block_reason = BLOCK_REASON_SLEEP
           /\ p[i].wake_up_time <= now
        THEN [ p[i] EXCEPT !.state = PROCESS_READY, !.block_reason = BLOCK_REASON_NONE ]
        ELSE p[i] ]

\* The three assignments of sleep() before it calls schedule()
GoToSleep(p, cur, now, ticks) ==
    [ p EXCEPT ![cur].wake_up_time = now + ticks,
               ![cur].state = PROCESS_BLOCKED,
               ![cur].block_reason = BLOCK_REASON_SLEEP ]

(* ------------------------------------------------------------------------ *)
(* Process table: src/src/kernel/process.c                                  *)
(* ------------------------------------------------------------------------ *)

\* A search that finds no slot when only the last one is UNUSED: C12 depends
\* on the search covering the whole table
RECURSIVE FindUnusedShort(_, _)
FindUnusedShort(p, i) ==
    IF i >= MAX_PROCESS - 1 THEN -1
    ELSE IF p[i].state = PROCESS_UNUSED THEN i
    ELSE FindUnusedShort(p, i + 1)

\* A search that returns the last UNUSED slot instead of the first: C13
\* depends on the direction of the search
RECURSIVE FindUnusedLast(_, _)
FindUnusedLast(p, i) ==
    IF i >= MAX_PROCESS THEN -1
    ELSE LET later == FindUnusedLast(p, i + 1)
         IN  IF later # -1 THEN later
             ELSE IF p[i].state = PROCESS_UNUSED THEN i
             ELSE -1

\* The search loop of create_process: first UNUSED slot, -1 when there is none
RECURSIVE FindUnused(_, _)
FindUnused(p, i) ==
    IF i >= MAX_PROCESS THEN -1
    ELSE IF p[i].state = PROCESS_UNUSED THEN i
    ELSE FindUnused(p, i + 1)

\* Step 3 of create_process: the fields it assigns (quantum is not among them)
SetupPcb(pcb, pid, priority, stack) ==
    [ pcb EXCEPT !.stack_addr = stack, !.pid = pid, !.state = PROCESS_READY,
                 !.priority = priority, !.wake_up_time = 0,
                 !.block_reason = BLOCK_REASON_NONE ]

\* The body of the loop of free_zombie, run over the slots from i on
RECURSIVE ReapFrom(_, _, _, _)
ReapFrom(p, h, n, i) ==
    IF i >= MAX_PROCESS THEN [ process |-> p, heap |-> h, num |-> n ]
    ELSE IF p[i].state = PROCESS_ZOMBIE
         THEN ReapFrom([ p EXCEPT ![i].stack_addr = 0, ![i].state = PROCESS_UNUSED ],
                       IF p[i].stack_addr # 0 THEN kfree(h, p[i].stack_addr) ELSE h,
                       n - 1, i + 1)
         ELSE ReapFrom(p, h, n, i + 1)


(* ------------------------------------------------------------------------ *)
(* Initial state: kernel() after init_memory_system, init_process_system    *)
(* and timer_init, with sem_init(&s, 1) done                                *)
(* ------------------------------------------------------------------------ *)

\* init_process_system: slot 0 is the running kernel
InitTable ==
    [ i \in Slots |->
        IF i = 0 THEN [ ZeroPcb EXCEPT !.pid = 0, !.state = PROCESS_RUNNING,
                                       !.priority = 0, !.stack_addr = 0 ]
        ELSE ZeroPcb ]

\* The variables outside the process table and the flag need_reschedule
InitOther ==
    /\ sys_timer_count = 0
    /\ sem_count = 1
    /\ sem_lock = 0
    /\ pc = [ i \in Slots |-> "run" ]
    /\ irq = "none"
    /\ hist = Hist("init", 0, -1, PROCESS_RUNNING)
    /\ slp = [ i \in Slots |-> NoSleep ]
    /\ run_ticks = 0
    /\ born = [ i \in Slots |-> -1 ]
    /\ waitq = << >>
    /\ reg = [ i \in Slots |-> 0 ]
    /\ mem_map = [ i \in Pages |-> 0 ]
    /\ phys_mem_start = 0
    /\ page_data = [ i \in Pages |-> 0 ]
    /\ held = {}
    /\ written = [ i \in Pages |-> 0 ]
    /\ live = {}
    /\ last_req = 0
    /\ kernel_pgd = EmptyTable
    /\ pt = [ i \in Pages |-> EmptyTable ]
    /\ pending = [ i \in Slots |-> NoAccess ]
    /\ nfault = [ i \in Slots |-> 0 ]
    /\ last_fault = NoFault

InitRest ==
    /\ need_reschedule = 0
    /\ InitOther

Init ==
    /\ process = InitTable
    /\ current_process = 0
    /\ num_process = 1
    /\ heap = kheap_init(HeapStart, HeapStart + heap_size)
    /\ InitRest

(* ------------------------------------------------------------------------ *)
(* Operations                                                               *)
(* ------------------------------------------------------------------------ *)

\* A call of schedule() on table p by the current process, inside operation op
DoSchedule(p, op) ==
    LET r == schedule(p, current_process)
    IN  /\ process' = r.process
        /\ current_process' = r.current
        /\ need_reschedule' = 0
        /\ run_ticks' = IF r.current # current_process THEN 0 ELSE run_ticks
        /\ hist' = Hist(op, current_process, r.current, r.chosen_state)

\* A call of schedule() in an operation that leaves the memory managers alone
CallSchedule(p, op) ==
    /\ DoSchedule(p, op)
    /\ UNCHANGED mm_vars

\* The running process executes ordinary code with interrupts enabled
AtWork == irq = "none" /\ pc[current_process] = "run"

\* create_process(fn, arg, priority, name), called by the running process
CreateProcess(priority) ==
    /\ AtWork
    /\ LET pid == FindUnused(process, 0)
           m   == kmalloc(heap, STACK_SIZE)
       IN  IF pid = -1
           THEN /\ hist' = Hist("create_full", current_process, -1, PROCESS_UNUSED)
                /\ UNCHANGED << process, num_process, heap, born, slp, pc >>
           ELSE IF m.ptr = 0
           THEN /\ hist' = Hist("create_nomem", current_process, -1, PROCESS_UNUSED)
                /\ heap' = m.heap
                /\ UNCHANGED << process, num_process, born, slp, pc >>
           ELSE /\ process' = [ process EXCEPT ![pid] = SetupPcb(@, pid, priority, m.ptr) ]
                /\ heap' = m.heap
                /\ num_process' = num_process + 1
                /\ born' = [ born EXCEPT ![pid] = priority ]
                /\ slp' = [ slp EXCEPT ![pid] = NoSleep ]
                /\ pc' = [ pc EXCEPT ![pid] = "run" ]
                /\ hist' = Hist("create", current_process, pid, PROCESS_UNUSED)
    /\ UNCHANGED << current_process, need_reschedule, sys_timer_count, sem_count,
                    sem_lock, irq, run_ticks, waitq >>
    /\ UNCHANGED mm_vars

\* sleep(ticks), called by the running process; the kernel's idle loop
\* (kernel.c:103-109) never sleeps
Sleep(ticks) ==
    /\ AtWork \/ (irq = "none" /\ pc[current_process] = "cs")
    /\ current_process # 0
    /\ slp' = [ slp EXCEPT ![current_process] = [ T |-> sys_timer_count, n |-> ticks ] ]
    /\ CallSchedule(GoToSleep(process, current_process, sys_timer_count, ticks), "sleep")
    /\ UNCHANGED << num_process, sys_timer_count, heap, sem_count, sem_lock, pc, irq,
                    born, waitq >>

\* exit(), called by the running process (the return of its entry function)
Exit ==
    /\ AtWork
    /\ current_process # 0
    /\ CallSchedule([ process EXCEPT ![current_process].state = PROCESS_ZOMBIE ], "exit")
    /\ UNCHANGED << num_process, sys_timer_count, heap, sem_count, sem_lock, pc, irq,
                    slp, born, waitq >>

\* free_zombie(), called from the kernel's idle loop
FreeZombie ==
    /\ AtWork
    /\ current_process = 0
    /\ LET r == ReapFrom(process, heap, num_process, 0)
       IN  /\ process' = r.process
           /\ heap' = r.heap
           /\ num_process' = r.num
    /\ hist' = Hist("free_zombie", current_process, -1, PROCESS_UNUSED)
    /\ UNCHANGED << current_process, need_reschedule, sys_timer_count, sem_count,
                    sem_lock, pc, irq, slp, run_ticks, born, waitq >>
    /\ UNCHANGED mm_vars

\* handle_timer_irq, first half: timer_tick()
TimerTick ==
    /\ irq = "none"
    /\ sys_timer_count < MaxTicks
    /\ sys_timer_count' = sys_timer_count + 1
    /\ LET q == TickQuantum(process, current_process)
       IN  /\ need_reschedule' = TickFlag(q, current_process, need_reschedule)
           /\ process' = WakeSleepers(q, sys_timer_count + 1)
    /\ run_ticks' = IF /\ process[current_process].state = PROCESS_RUNNING
                       /\ process[current_process].pid > 0
                    THEN run_ticks + 1 ELSE run_ticks
    /\ irq' = "tick"
    /\ hist' = Hist("timer_tick", current_process, -1, PROCESS_UNUSED)
    /\ UNCHANGED << current_process, num_process, heap, sem_count, sem_lock, pc, slp,
                    born, waitq >>
    /\ UNCHANGED mm_vars

\* handle_timer_irq, second half: the schedule() call that follows timer_tick()
TimerSchedule ==
    /\ irq = "tick"
    /\ irq' = "none"
    /\ CallSchedule(process, "irq_schedule")
    /\ UNCHANGED << num_process, sys_timer_count, heap, sem_count, sem_lock, pc, slp,
                    born, waitq >>

Next ==
    \/ \E priority \in Priorities : CreateProcess(priority)
    \/ \E ticks \in SleepArgs : Sleep(ticks)
    \/ Exit
    \/ FreeZombie
    \/ TimerTick
    \/ TimerSchedule

Spec == Init /\ [][Next]_vars


(* ------------------------------------------------------------------------ *)
(* schedule() on an arbitrary process table                                 *)
(* ------------------------------------------------------------------------ *)

States == { PROCESS_RUNNING, PROCESS_READY, PROCESS_BLOCKED, PROCESS_ZOMBIE,
            PROCESS_UNUSED }

\* A table with any state and a priority of Priorities in every slot
AnyTable(st, pr) ==
    [ i \in Slots |-> [ ZeroPcb EXCEPT !.pid = i, !.state = st[i], !.priority = pr[i] ] ]

TableInit ==
    /\ \E st \in [ Slots -> States ], pr \in [ Slots -> Priorities ] :
           process = AnyTable(st, pr)
    /\ current_process \in Slots
    /\ num_process = 1
    /\ heap = kheap_init(HeapStart, HeapStart + heap_size)
    /\ InitRest

\* One call of schedule() on the table
TableSchedule ==
    /\ hist.op = "init"
    /\ CallSchedule(process, "schedule")
    /\ UNCHANGED << num_process, sys_timer_count, heap, sem_count, sem_lock, pc, irq,
                    slp, born, waitq >>

SpecTable == TableInit /\ [][TableSchedule]_vars

(* ------------------------------------------------------------------------ *)
(* timer_tick() on an arbitrary process table                               *)
(* ------------------------------------------------------------------------ *)

\* Quantum values a PCB holds when the tick comes
Quanta == 0 .. DEFAULT_QUANTUM

\* States of the PCBs when the tick comes; a BLOCKED one sleeps until tick 1
TickStates == { PROCESS_RUNNING, PROCESS_READY, PROCESS_BLOCKED }

\* A table with any of these states and any quantum of Quanta in every slot
TickTable(st, qu) ==
    [ i \in Slots |->
        [ ZeroPcb EXCEPT !.pid = i, !.state = st[i], !.quantum = qu[i],
                         !.wake_up_time = IF st[i] = PROCESS_BLOCKED THEN 1 ELSE 0,
                         !.block_reason = IF st[i] = PROCESS_BLOCKED
                                          THEN BLOCK_REASON_SLEEP
                                          ELSE BLOCK_REASON_NONE ] ]

TickInit ==
    /\ \E st \in [ Slots -> TickStates ], qu \in [ Slots -> Quanta ] :
           process = TickTable(st, qu)
    /\ current_process \in Slots
    /\ need_reschedule \in {0, 1}
    /\ num_process = 1
    /\ heap = kheap_init(HeapStart, HeapStart + heap_size)
    /\ InitOther

\* One call of timer_tick() on the table
SpecTick == TickInit /\ [][TimerTick]_vars

(* ------------------------------------------------------------------------ *)
(* The wake-up loop of timer_tick() on an arbitrary process table           *)
(* ------------------------------------------------------------------------ *)

\* Wake-up times around the tick the counter reaches
WakeTimes == 0 .. 2

\* The PCBs the loop may find in a slot: any state, and for a BLOCKED one any
\* block reason and any wake-up time of WakeTimes
WakeKinds ==
    { [ ZeroPcb EXCEPT !.state = s ] :
          s \in { PROCESS_RUNNING, PROCESS_READY, PROCESS_ZOMBIE, PROCESS_UNUSED } }
    \cup { [ ZeroPcb EXCEPT !.state = PROCESS_BLOCKED, !.block_reason = r,
                            !.wake_up_time = w ] :
               r \in { BLOCK_REASON_SLEEP, BLOCK_REASON_WAIT, BLOCK_REASON_NONE },
               w \in WakeTimes }

WakeInit ==
    /\ \E k \in [ Slots -> WakeKinds ] :
           process = [ i \in Slots |-> [ k[i] EXCEPT !.pid = i ] ]
    /\ current_process \in Slots
    /\ num_process = 1
    /\ heap = kheap_init(HeapStart, HeapStart + heap_size)
    /\ InitRest

\* One call of timer_tick() on the table
SpecWake == WakeInit /\ [][TimerTick]_vars

(* ------------------------------------------------------------------------ *)
(* schedule() called again and again among always-runnable processes        *)
(* ------------------------------------------------------------------------ *)

\* Every slot holds a runnable process, the current one RUNNING, with any
\* priorities of Priorities
StarveInit ==
    /\ current_process \in Slots
    /\ \E pr \in [ Slots -> Priorities ] :
           process = AnyTable([ i \in Slots |-> IF i = current_process
                                                THEN PROCESS_RUNNING
                                                ELSE PROCESS_READY ], pr)
    /\ num_process = MAX_PROCESS
    /\ heap = kheap_init(HeapStart, HeapStart + heap_size)
    /\ InitRest

\* A call of schedule() (from the timer interrupt); no process ever blocks
StarveSchedule ==
    /\ CallSchedule(process, "schedule")
    /\ UNCHANGED << num_process, sys_timer_count, heap, sem_count, sem_lock, pc, irq,
                    slp, born, waitq >>

\* schedule() is invoked infinitely often
SpecStarve == StarveInit /\ [][StarveSchedule]_vars /\ WF_vars(StarveSchedule)

(* ------------------------------------------------------------------------ *)
(* Semaphore: src/src/semaphore.c, used by processes that each call         *)
(* sem_wait(&s) and later sem_signal(&s), as tarea_holder and tarea_waiter  *)
(* of src/src/utils/tests.c do                                              *)
(* ------------------------------------------------------------------------ *)

\* The processes that use the semaphore
SemUsers == { 1, 2, 3 } \cap Slots

\* spin_lock(&sem_lock) returns once it has changed the lock from 0 to 1
SpinLockFree(lock) == lock = 0

\* A test that also passes at count = 0: C3 depends on the test of sem_wait
CountNotNegative(count) == count >= 0

\* The test "s->count > 0" of sem_wait
CountAvailable(count) == count > 0

\* After test_semaphores_efficiency: sem_init(&s, 1) and the user processes
\* created READY with priority 10 by create_process; the kernel, selected at
\* every tick while it was alone, has reached priority 10
SemTable ==
    [ i \in Slots |->
        IF i \in SemUsers
        THEN SetupPcb(ZeroPcb, i, 10, HeapStart + HEADER_SIZE)
        ELSE IF i = 0 THEN [ InitTable[0] EXCEPT !.priority = 10 ]
        ELSE InitTable[i] ]

SemInit ==
    /\ process = SemTable
    /\ current_process = 0
    /\ num_process = 1 + Cardinality(SemUsers)
    /\ heap = kheap_init(HeapStart, HeapStart + heap_size)
    /\ InitRest

\* The running process is a semaphore user at position at, interrupts enabled
UserAt(at) ==
    /\ irq = "none"
    /\ current_process \in SemUsers
    /\ pc[current_process] \in at

SemFrame == << process, current_process, num_process, need_reschedule, sys_timer_count,
               heap, irq, slp, run_ticks, born, mm_vars >>

\* sem_wait: spin_lock(&sem_lock), on entry and at each turn of the loop
SemWaitLock ==
    /\ UserAt({ "run", "sw_retry" })
    /\ SpinLockFree(sem_lock)
    /\ sem_lock' = 1
    /\ pc' = [ pc EXCEPT ![current_process] = "sw_locked" ]
    /\ hist' = Hist("sem_wait_lock", current_process, -1, PROCESS_UNUSED)
    /\ UNCHANGED << sem_count, waitq >>
    /\ UNCHANGED SemFrame

\* sem_wait: the test of s->count; a process that finds no unit starts waiting
SemWaitTest ==
    /\ UserAt({ "sw_locked" })
    /\ IF CountAvailable(sem_count)
       THEN /\ pc' = [ pc EXCEPT ![current_process] = "sw_dec" ]
            /\ UNCHANGED waitq
       ELSE /\ pc' = [ pc EXCEPT ![current_process] = "sw_fail" ]
            /\ waitq' = IF \E k \in 1 .. Len(waitq) : waitq[k] = current_process
                        THEN waitq ELSE Append(waitq, current_process)
    /\ hist' = Hist("sem_wait_test", current_process, -1, PROCESS_UNUSED)
    /\ UNCHANGED << sem_count, sem_lock >>
    /\ UNCHANGED SemFrame

\* sem_wait: s->count--
SemWaitDec ==
    /\ UserAt({ "sw_dec" })
    /\ sem_count' = sem_count - 1
    /\ pc' = [ pc EXCEPT ![current_process] = "sw_got" ]
    /\ hist' = Hist("sem_wait_dec", current_process, -1, PROCESS_UNUSED)
    /\ UNCHANGED << sem_lock, waitq >>
    /\ UNCHANGED SemFrame

\* sem_wait: spin_unlock and return
SemWaitReturn ==
    /\ UserAt({ "sw_got" })
    /\ sem_lock' = 0
    /\ pc' = [ pc EXCEPT ![current_process] = "cs" ]
    /\ waitq' = SelectSeq(waitq, LAMBDA w : w # current_process)
    /\ hist' = Hist("sem_wait_return", current_process, -1, PROCESS_UNUSED)
    /\ UNCHANGED sem_count
    /\ UNCHANGED SemFrame

\* A sem_wait that gives up the CPU without spin_unlock: C36 depends on the
\* unlock before schedule()
SemWaitKeepLock ==
    /\ UserAt({ "sw_fail" })
    /\ pc' = [ pc EXCEPT ![current_process] = "sw_yield" ]
    /\ hist' = Hist("sem_wait_unlock", current_process, -1, PROCESS_UNUSED)
    /\ UNCHANGED << sem_count, sem_lock, waitq >>
    /\ UNCHANGED SemFrame

\* sem_wait: spin_unlock before giving up the CPU
SemWaitUnlock ==
    /\ UserAt({ "sw_fail" })
    /\ sem_lock' = 0
    /\ pc' = [ pc EXCEPT ![current_process] = "sw_yield" ]
    /\ hist' = Hist("sem_wait_unlock", current_process, -1, PROCESS_UNUSED)
    /\ UNCHANGED << sem_count, waitq >>
    /\ UNCHANGED SemFrame

\* sem_wait: the schedule() call of the loop
SemWaitYield ==
    /\ UserAt({ "sw_yield" })
    /\ pc' = [ pc EXCEPT ![current_process] = "sw_retry" ]
    /\ CallSchedule(process, "sem_wait_schedule")
    /\ UNCHANGED << num_process, sys_timer_count, heap, sem_count, sem_lock, irq, slp,
                    born, waitq >>

\* sem_signal: spin_lock(&sem_lock)
SemSignalLock ==
    /\ UserAt({ "cs" })
    /\ SpinLockFree(sem_lock)
    /\ sem_lock' = 1
    /\ pc' = [ pc EXCEPT ![current_process] = "ss_locked" ]
    /\ hist' = Hist("sem_signal_lock", current_process, -1, PROCESS_UNUSED)
    /\ UNCHANGED << sem_count, waitq >>
    /\ UNCHANGED SemFrame

\* sem_signal: s->count++
SemSignalInc ==
    /\ UserAt({ "ss_locked" })
    /\ sem_count' = sem_count + 1
    /\ pc' = [ pc EXCEPT ![current_process] = "ss_inc" ]
    /\ hist' = Hist("sem_signal_inc", current_process, -1, PROCESS_UNUSED)
    /\ UNCHANGED << sem_lock, waitq >>
    /\ UNCHANGED SemFrame

\* sem_signal: spin_unlock and return
SemSignalReturn ==
    /\ UserAt({ "ss_inc" })
    /\ sem_lock' = 0
    /\ pc' = [ pc EXCEPT ![current_process] = "run" ]
    /\ hist' = Hist("sem_signal_return", current_process, -1, PROCESS_UNUSED)
    /\ UNCHANGED << sem_count, waitq >>
    /\ UNCHANGED SemFrame

\* tarea_holder: sleep() between sem_wait and sem_signal
SemHolderSleep ==
    /\ UserAt({ "cs" })
    /\ \E ticks \in SleepArgs : Sleep(ticks)

SemNext ==
    \/ SemWaitLock
    \/ SemWaitTest
    \/ SemWaitDec
    \/ SemWaitReturn
    \/ SemWaitUnlock
    \/ SemWaitYield
    \/ SemSignalLock
    \/ SemSignalInc
    \/ SemSignalReturn
    \/ SemHolderSleep
    \/ TimerTick
    \/ TimerSchedule

SpecSem == SemInit /\ [][SemNext]_vars

(* ------------------------------------------------------------------------ *)
(* Process lifecycle: create_process, exit and free_zombie under the timer  *)
(* interrupt, with a heap that holds a stack for every slot or for two only *)
(* ------------------------------------------------------------------------ *)

\* Sizes of the heap region: room for two stacks (kmalloc can fail while a
\* slot is UNUSED) or for one stack per slot a process can be created in
LifeHeapSizes == { heap_size, (MAX_PROCESS - 1) * (STACK_SIZE + HEADER_SIZE) + 8 }

LifeInit ==
    /\ process = InitTable
    /\ current_process = 0
    /\ num_process = 1
    /\ \E size \in LifeHeapSizes : heap = kheap_init(HeapStart, HeapStart + size)
    /\ InitRest

LifeNext ==
    \/ \E priority \in Priorities : CreateProcess(priority)
    \/ Exit
    \/ FreeZombie
    \/ TimerTick
    \/ TimerSchedule

SpecLife == LifeInit /\ [][LifeNext]_vars

(* ------------------------------------------------------------------------ *)
(* The heap under arbitrary sequences of kmalloc and kfree                  *)
(* ------------------------------------------------------------------------ *)

\* Size of the heap region of this specification: room for four blocks of
\* 16 bytes
HeapSpan == 4 * (HEADER_SIZE + 16)

\* Start addresses given to kheap_init: aligned to 16, and not
HeapStarts == { HeapStart, HeapStart + 8 }

\* Sizes given to kmalloc: zero, below and above the alignment, one that no
\* block can hold, and the largest value of uint32_t
MallocSizes == { 0, 1, 40, HeapSpan, UIntMod - 1 }

\* What the heap operations leave unchanged
HeapFrame == << process, current_process, num_process, need_reschedule, sys_timer_count,
                sem_count, sem_lock, pc, irq, slp, run_ticks, born, waitq, reg,
                pmm_vars, vmm_vars >>

HeapInit ==
    /\ process = InitTable
    /\ current_process = 0
    /\ num_process = 1
    /\ \E start \in HeapStarts : heap = kheap_init(start, HeapStart + HeapSpan)
    /\ InitRest

\* p = kmalloc(size); hist.chosen is the pointer returned
Malloc(size) ==
    /\ LET r == kmalloc(heap, size)
       IN  /\ heap' = r.heap
           /\ live' = IF r.ptr = 0 THEN live
                      ELSE live \cup { [ ptr |-> r.ptr, size |-> size ] }
           /\ hist' = Hist("kmalloc", current_process, r.ptr, PROCESS_UNUSED)
    /\ last_req' = size
    /\ UNCHANGED HeapFrame

\* kfree(ptr) of a live pointer, or of nullptr; hist.chosen is the argument
Free(ptr) ==
    /\ heap' = kfree(heap, ptr)
    /\ live' = { a \in live : a.ptr # ptr }
    /\ hist' = Hist("kfree", current_process, ptr, PROCESS_UNUSED)
    /\ UNCHANGED last_req
    /\ UNCHANGED HeapFrame

\* ptr = kmalloc(size); kfree(ptr), as test_memory does; hist.chosen is the
\* pointer kmalloc returned
MallocFree(size) ==
    /\ LET r == kmalloc(heap, size)
       IN  /\ heap' = kfree(r.heap, r.ptr)
           /\ hist' = Hist("kmalloc_kfree", current_process, r.ptr, PROCESS_UNUSED)
    /\ last_req' = size
    /\ UNCHANGED live
    /\ UNCHANGED HeapFrame

HeapNext ==
    \/ \E size \in MallocSizes : Malloc(size)
    \/ \E ptr \in { a.ptr : a \in live } \cup { 0 } : Free(ptr)
    \/ \E size \in MallocSizes : MallocFree(size)

SpecHeap == HeapInit /\ [][HeapNext]_vars

(* ------------------------------------------------------------------------ *)
(* Physical memory manager: src/src/mm/pmm.c                                *)
(* ------------------------------------------------------------------------ *)

\* The scan of get_free_page: the first page from i on whose bit is clear,
\* -1 when the loop ends without one
RECURSIVE FirstClear(_, _)
FirstClear(m, i) ==
    IF i >= TOTAL_PAGES THEN -1
    ELSE IF m[i] = 0 THEN i
    ELSE FirstClear(m, i + 1)

\* phys_mem_start + (i * PAGE_SIZE), in unsigned long arithmetic (the int
\* product does not overflow in the source: 32767 * 4096 < 2^31)
PageAddr(start, i) == (start + i * PAGE_SIZE) % ULongMod

\* Conversion of an unsigned long to int: the low INT_BITS bits, as a
\* two's complement value
ToInt(x) ==
    LET r == x % IntMod
    IN  IF r >= IntMod \div 2 THEN r - IntMod ELSE r

\* free_page: offset = p - phys_mem_start, in unsigned long arithmetic
Offset(start, p) == (p - start) % ULongMod

\* The number of the page that holds address p, counted from the base
PageOf(start, p) == Offset(start, p) \div PAGE_SIZE

\* free_page: int index = offset / PAGE_SIZE
PageIndex(start, p) == ToInt(PageOf(start, p))

\* A memset that leaves the page as it is: C18 depends on the zeroing
KeepPage(d, i) == d

\* memset((void*)page_addr, 0, PAGE_SIZE) in get_free_page, on the data word
\* of the page (the descriptors of the page are zeroed with it)
ZeroPage(d, i) == [ d EXCEPT ![i] = 0 ]

\* get_free_page on bitmap m: the new bitmap, the page found (-1: none) and
\* the value returned (0 when there is no page)
get_free_page(m, start) ==
    LET i == FirstClear(m, 0)
    IN  IF i = -1 THEN [ map |-> m, index |-> -1, addr |-> 0 ]
        ELSE [ map |-> [ m EXCEPT ![i] = 1 ], index |-> i, addr |-> PageAddr(start, i) ]

\* free_page on bitmap m
free_page(m, start, p) ==
    LET index == PageIndex(start, p)
    IN  IF index < 0 \/ index >= TOTAL_PAGES THEN m
        ELSE [ m EXCEPT ![index] = 0 ]

\* Values given to pmm_init: a base above the kernel (kernel.c:49 has
\* 0x42000000), and the last page of the address space
PmmBases == { 2 * PAGE_SIZE, ULongMod - PAGE_SIZE }

\* Addresses given to free_page: the start of each page, an address inside
\* each page, the page below the base, the first address beyond the region,
\* and the addresses 2 ^ INT_BITS pages above and below the base
FreeArgs(start) ==
    { PageAddr(start, i) : i \in Pages }
        \cup { (PageAddr(start, i) + 8) % ULongMod : i \in Pages }
        \cup { (start - PAGE_SIZE) % ULongMod,
               (start + TOTAL_PAGES * PAGE_SIZE) % ULongMod,
               (start + IntMod * PAGE_SIZE) % ULongMod,
               (start - IntMod * PAGE_SIZE) % ULongMod }

\* Data a process writes into a page it holds
PageData == { 1, 2 }

\* What the operations of the memory manager leave unchanged
PmmFrame == << process, current_process, num_process, need_reschedule, sys_timer_count,
               heap, sem_count, sem_lock, pc, irq, slp, run_ticks, born, waitq,
               heap_hist, kernel_pgd, pending, nfault, last_fault, reg >>

\* pmm_init(start, size), called at most once, before any other call
PmmInit(start) ==
    /\ hist.op = "init"
    /\ phys_mem_start' = start
    /\ mem_map' = [ i \in Pages |-> 0 ]
    /\ hist' = Hist("pmm_init", current_process, -1, PROCESS_UNUSED)
    /\ UNCHANGED << page_data, held, written, pt >>
    /\ UNCHANGED PmmFrame

\* get_free_page(); hist.chosen is the value returned
GetFreePage ==
    /\ LET r == get_free_page(mem_map, phys_mem_start)
       IN  /\ mem_map' = r.map
           /\ IF r.index = -1
              THEN /\ hist' = Hist("get_free_page_oom", current_process, r.addr,
                                   PROCESS_UNUSED)
                   /\ UNCHANGED << page_data, held, pt >>
              ELSE /\ hist' = Hist("get_free_page", current_process, r.addr,
                                   PROCESS_UNUSED)
                   /\ page_data' = ZeroPage(page_data, r.index)
                   /\ pt' = [ pt EXCEPT ![r.index] = EmptyTable ]
                   /\ held' = held \cup { r.addr }
    /\ UNCHANGED << phys_mem_start, written >>
    /\ UNCHANGED PmmFrame

\* free_page(p); hist.chosen is the argument. An address stops being held
\* when free_page is given it, or any other address of its page
FreePage(p) ==
    /\ mem_map' = free_page(mem_map, phys_mem_start, p)
    /\ held' = { a \in held : PageOf(phys_mem_start, a) # PageOf(phys_mem_start, p) }
    /\ hist' = Hist("free_page", current_process, p, PROCESS_UNUSED)
    /\ UNCHANGED << phys_mem_start, page_data, written, pt >>
    /\ UNCHANGED PmmFrame

\* The holder of page i writes data into it
WritePage(i, d) ==
    /\ PageAddr(phys_mem_start, i) \in held
    /\ page_data[i] # d
    /\ page_data' = [ page_data EXCEPT ![i] = d ]
    /\ written' = [ written EXCEPT ![i] = d ]
    /\ hist' = Hist("write_page", current_process, PageAddr(phys_mem_start, i),
                    PROCESS_UNUSED)
    /\ UNCHANGED << mem_map, phys_mem_start, held, pt >>
    /\ UNCHANGED PmmFrame

PmmNext ==
    \/ \E start \in PmmBases : PmmInit(start)
    \/ GetFreePage
    \/ \E p \in FreeArgs(phys_mem_start) : FreePage(p)
    \/ \E i \in Pages, d \in PageData : WritePage(i, d)

\* The memory manager with the process table as init_process_system leaves
\* it; pmm_init is called first, or not at all (kernel.c:49 is commented out)
SpecPmm == Init /\ [][PmmNext]_vars

(* ------------------------------------------------------------------------ *)
(* Virtual memory: src/src/mm/mm.c, src/src/mm/vmm.c, src/src/kernel/sys.c  *)
(* ------------------------------------------------------------------------ *)

\* page_table_l1 as mem_init fills it: entry 0 and entry 1 are 1 GB blocks
\* (devices, RAM) mapped to themselves for the kernel, all others are 0
page_table_l1 ==
    [ x \in TableIdx |->
        IF x = 0 THEN Descriptor(TRUE, FALSE, 0, FALSE)
        ELSE IF x = 1 THEN Descriptor(TRUE, FALSE, 1073741824, FALSE)
        ELSE NoDescriptor ]

\* set_ttbr0_el1((unsigned long)page_table_l1): the table the MMU walks
ttbr0 == page_table_l1

\* The table stored in the page at physical address addr, read through the
\* identity mapping ((unsigned long *)addr)
TableAt(tables, addr) == tables[PageOf(phys_mem_start, addr)]

\* The walk the MMU makes for virtual page vpn from table root: ok when it
\* ends at a valid block or page descriptor
Translate(root, tables, vpn) ==
    LET d1 == root[L1_INDEX(vpn)]
    IN  IF ~d1.valid THEN [ ok |-> FALSE, d |-> NoDescriptor ]
        ELSE IF ~d1.table THEN [ ok |-> TRUE, d |-> d1 ]
        ELSE LET d2 == TableAt(tables, d1.addr)[L2_INDEX(vpn)]
             IN  IF ~d2.valid THEN [ ok |-> FALSE, d |-> NoDescriptor ]
                 ELSE IF ~d2.table THEN [ ok |-> TRUE, d |-> d2 ]
                 ELSE LET d3 == TableAt(tables, d2.addr)[L3_INDEX(vpn)]
                      IN  IF d3.valid /\ d3.table THEN [ ok |-> TRUE, d |-> d3 ]
                          ELSE [ ok |-> FALSE, d |-> NoDescriptor ]

\* An access at exception level el (0: user, 1: kernel) to virtual page vpn
\* goes through: the walk ends at a descriptor that el may use
Allowed(root, tables, vpn, el) ==
    LET t == Translate(root, tables, vpn)
    IN  t.ok /\ (el = 1 \/ t.d.user)

\* The state of the physical memory manager, as a value
PmmState == [ map |-> mem_map, data |-> page_data, pt |-> pt, held |-> held, ret |-> 0 ]

\* get_free_page() in state st: the new state, ret the value returned
GetPage(st) ==
    LET r == get_free_page(st.map, phys_mem_start)
    IN  IF r.index = -1 THEN [ st EXCEPT !.ret = 0 ]
        ELSE [ map  |-> r.map,
               data |-> ZeroPage(st.data, r.index),
               pt   |-> [ st.pt EXCEPT ![r.index] = EmptyTable ],
               held |-> st.held \cup { r.addr },
               ret  |-> r.addr ]

\* table[idx] = d, in the table stored at physical address addr
SetEntry(st, addr, idx, d) ==
    [ st EXCEPT !.pt[PageOf(phys_mem_start, addr)][idx] = d ]

\* Steps 3 and 4 of map_page: the L2 table is at l2_table; root and st are
\* the table of level 1 and the memory after step 2
MapFromL2(root, st, l2_table, vpn, phys, user) ==
    LET e == TableAt(st.pt, l2_table)[L2_INDEX(vpn)]
    IN  IF ~e.valid
        THEN LET g == GetPage(st)
             IN  IF g.ret = 0 THEN [ root |-> root, st |-> g ]
                 ELSE [ root |-> root,
                        st   |-> SetEntry(SetEntry(g, l2_table, L2_INDEX(vpn),
                                                   Descriptor(TRUE, TRUE, g.ret, FALSE)),
                                          g.ret, L3_INDEX(vpn),
                                          Descriptor(TRUE, TRUE, phys, user)) ]
        ELSE [ root |-> root,
               st   |-> SetEntry(st, e.addr, L3_INDEX(vpn),
                                 Descriptor(TRUE, TRUE, phys, user)) ]

\* A map_page that always takes a new table of level 2: C33 depends on the
\* table an entry of level 1 already points to being used again
MapPageAlwaysNew(root, st, vpn, phys, user) ==
    LET g == GetPage(st)
    IN  IF g.ret = 0 THEN [ root |-> root, st |-> g ]
        ELSE MapFromL2([ root EXCEPT ![L1_INDEX(vpn)] =
                             Descriptor(TRUE, TRUE, g.ret, FALSE) ],
                       g, g.ret, vpn, phys, user)

\* map_page(root_table, virt, phys, flags): the new root table and memory.
\* It returns nothing: the caller cannot tell whether the leaf was written
map_page(root, st, vpn, phys, user) ==
    LET e == root[L1_INDEX(vpn)]
    IN  IF ~e.valid
        THEN LET g == GetPage(st)
             IN  IF g.ret = 0 THEN [ root |-> root, st |-> g ]
                 ELSE MapFromL2([ root EXCEPT ![L1_INDEX(vpn)] =
                                      Descriptor(TRUE, TRUE, g.ret, FALSE) ],
                                g, g.ret, vpn, phys, user)
        ELSE MapFromL2(root, st, e.addr, vpn, phys, user)

\* What handle_fault and the accesses leave unchanged
VmmFrame == << num_process, sys_timer_count, heap, sem_count, sem_lock, pc, irq, slp, born,
               waitq, phys_mem_start, written, heap_hist, reg >>

\* The memory managers take the values of st
PmmBecomes(st) ==
    /\ mem_map' = st.map
    /\ page_data' = st.data
    /\ pt' = st.pt
    /\ held' = st.held

\* An end of handle_fault that terminates every process but the kernel: C25
\* depends on exit() touching the current process only
FaultExitAll(st, n) ==
    /\ PmmBecomes(st)
    /\ DoSchedule([ i \in Slots |-> IF i = 0 THEN process[i]
                                    ELSE [ process[i] EXCEPT !.state = PROCESS_ZOMBIE ] ],
                  "fault_exit")
    /\ pending' = [ pending EXCEPT ![current_process] = NoAccess ]
    /\ nfault' = [ nfault EXCEPT ![current_process] = n + 1 ]
    /\ UNCHANGED kernel_pgd

\* The end of handle_fault: exit() of the current process, with the memory
\* managers in state st
FaultExit(st, n) ==
    /\ PmmBecomes(st)
    /\ DoSchedule([ process EXCEPT ![current_process].state = PROCESS_ZOMBIE ], "fault_exit")
    /\ pending' = [ pending EXCEPT ![current_process] = NoAccess ]
    /\ nfault' = [ nfault EXCEPT ![current_process] = n + 1 ]
    /\ UNCHANGED kernel_pgd

\* handle_fault() for an exception of class ec taken by the current process
\* at exception level el on its access to virtual page vpn (FAR_EL1), the
\* n + 1st for this access. When it returns, the access is retried
handle_fault(ec, vpn, el, n) ==
    /\ last_fault' = [ ec |-> ec, vpn |-> vpn, el |-> el ]
    /\ IF ec \in { EC_DABT_EL1, EC_DABT_EL0 }
       THEN LET g == GetPage(PmmState)
            IN  IF g.ret # 0
                THEN LET m == map_page(kernel_pgd, g, vpn, g.ret, ec = EC_DABT_EL0)
                     IN  /\ kernel_pgd' = m.root
                         /\ PmmBecomes(m.st)
                         /\ pending' = [ pending EXCEPT ![current_process] =
                                             [ vpn |-> vpn, el |-> el ] ]
                         /\ nfault' = [ nfault EXCEPT ![current_process] = n + 1 ]
                         /\ hist' = Hist("fault_return", current_process, g.ret,
                                         PROCESS_UNUSED)
                         /\ UNCHANGED << process, current_process, need_reschedule,
                                         run_ticks >>
                ELSE FaultExit(g, n)
       ELSE FaultExit(PmmState, n)

\* A process other than the kernel is running and starts or retries an access
CanAccess(vpn, el) ==
    /\ AtWork
    /\ current_process # 0
    /\ pending[current_process] \in { NoAccess, [ vpn |-> vpn, el |-> el ] }

\* Faults that handle_fault has run for the access the current process makes
FaultsSoFar == IF pending[current_process] = NoAccess THEN 0 ELSE nfault[current_process]

\* The current process writes to virtual page vpn at exception level el: the
\* write goes through, or the MMU raises a data abort and handle_fault runs
Access(vpn, el) ==
    /\ CanAccess(vpn, el)
    /\ IF Allowed(ttbr0, pt, vpn, el)
       THEN /\ hist' = Hist("write", current_process, -1, PROCESS_UNUSED)
            /\ pending' = [ pending EXCEPT ![current_process] = NoAccess ]
            /\ nfault' = [ nfault EXCEPT ![current_process] = FaultsSoFar ]
            /\ UNCHANGED << process, current_process, need_reschedule, run_ticks,
                            kernel_pgd, mem_map, page_data, pt, held, last_fault >>
       ELSE handle_fault(IF el = 0 THEN EC_DABT_EL0 ELSE EC_DABT_EL1, vpn, el, FaultsSoFar)
    /\ UNCHANGED VmmFrame

\* The current process takes a synchronous exception that is not a data
\* abort (it branches to virtual page vpn, which is not mapped)
InstructionAbort(vpn) ==
    /\ CanAccess(vpn, 1)
    /\ pending[current_process] = NoAccess
    /\ ~Allowed(ttbr0, pt, vpn, 1)
    /\ handle_fault(EC_IABT_EL1, vpn, 1, 0)
    /\ UNCHANGED VmmFrame

\* Before the first fault: create_process has made the processes of the
\* table READY at priority 0 (shell.c:216), the kernel runs
VmmTable ==
    [ i \in Slots |->
        IF i = 0 THEN InitTable[0]
        ELSE SetupPcb(ZeroPcb, i, 0, HeapStart + HEADER_SIZE) ]

VmmInit ==
    /\ process = VmmTable
    /\ current_process = 0
    /\ num_process = MAX_PROCESS
    /\ heap = kheap_init(HeapStart, HeapStart + heap_size)
    /\ InitRest

\* The base given to pmm_init when it is called (kernel.c:49 has 0x42000000)
VmmBases == { 2 * PAGE_SIZE }

VmmNext ==
    \/ \E start \in VmmBases : PmmInit(start)
    \/ \E vpn \in VAs, el \in { 0, 1 } : Access(vpn, el)
    \/ \E vpn \in VAs : InstructionAbort(vpn)
    \/ TimerTick
    \/ TimerSchedule

\* Processes that access memory, with the timer; pmm_init is called first,
\* or not at all (kernel.c:49 is commented out)
SpecVmm == VmmInit /\ [][VmmNext]_vars

(* ------------------------------------------------------------------------ *)
(* map_page() called again and again on kernel_pgd                          *)
(* ------------------------------------------------------------------------ *)

\* A virtual page in the table of level 2 of VA_HIGH, but under another of
\* its entries
VA_HIGH3 == VA_HIGH + TABLE_ENTRIES

\* Virtual pages given to map_page
MapVAs == VAs \cup { VA_HIGH3 }

\* Physical addresses given to map_page
MapFrames == { 16 * PAGE_SIZE, 17 * PAGE_SIZE }

\* A call map_page(kernel_pgd, virt, phys, flags), flags with or without the
\* user bit
MapPage(vpn, phys, user) ==
    /\ LET m == map_page(kernel_pgd, PmmState, vpn, phys, user)
       IN  /\ kernel_pgd' = m.root
           /\ PmmBecomes(m.st)
    /\ last_fault' = [ ec |-> 0, vpn |-> vpn, el |-> IF user THEN 0 ELSE 1 ]
    /\ hist' = Hist("map_page", current_process, phys, PROCESS_UNUSED)
    /\ UNCHANGED << process, current_process, need_reschedule, run_ticks, pending,
                    nfault >>
    /\ UNCHANGED VmmFrame

MapNext ==
    \/ \E start \in VmmBases : PmmInit(start)
    \/ \E vpn \in MapVAs, phys \in MapFrames, user \in BOOLEAN : MapPage(vpn, phys, user)

\* pmm_init is called first, or not at all (kernel.c:49 is commented out)
SpecMap == Init /\ [][MapNext]_vars

(* ------------------------------------------------------------------------ *)
(* sleep() statement by statement, with the timer interrupt in between      *)
(* ------------------------------------------------------------------------ *)

\* The tasks of tests.c, created READY at priority 10, call sleep() in a loop
\* with interrupts enabled (tests.c:129-135); the kernel, selected at every
\* tick while it was alone, has reached priority 10
RaceTable ==
    [ i \in Slots |->
        IF i = 0 THEN [ InitTable[0] EXCEPT !.priority = 10 ]
        ELSE SetupPcb(ZeroPcb, i, 10, HeapStart + HEADER_SIZE) ]

RaceInit ==
    /\ process = RaceTable
    /\ current_process = 0
    /\ num_process = MAX_PROCESS
    /\ heap = kheap_init(HeapStart, HeapStart + heap_size)
    /\ InitRest

\* The running process is a task at position at of sleep(), interrupts enabled
SleeperAt(at) ==
    /\ irq = "none"
    /\ current_process # 0
    /\ pc[current_process] = at

\* What the assignments of sleep() leave unchanged
RaceFrame == << current_process, num_process, need_reschedule, sys_timer_count, heap,
                sem_count, sem_lock, irq, run_ticks, born, waitq >>

\* sleep: current_process->wake_up_time = sys_timer_count + ticks
SleepSetTime(ticks) ==
    /\ SleeperAt("run")
    /\ process' = [ process EXCEPT ![current_process].wake_up_time =
                                       sys_timer_count + ticks ]
    /\ slp' = [ slp EXCEPT ![current_process] = [ T |-> sys_timer_count, n |-> ticks ] ]
    /\ pc' = [ pc EXCEPT ![current_process] = "sl_time" ]
    /\ hist' = Hist("sleep_time", current_process, -1, PROCESS_UNUSED)
    /\ UNCHANGED RaceFrame
    /\ UNCHANGED mm_vars

\* sleep: current_process->state = PROCESS_BLOCKED
SleepSetState ==
    /\ SleeperAt("sl_time")
    /\ process' = [ process EXCEPT ![current_process].state = PROCESS_BLOCKED ]
    /\ pc' = [ pc EXCEPT ![current_process] = "sl_state" ]
    /\ hist' = Hist("sleep_state", current_process, -1, PROCESS_UNUSED)
    /\ UNCHANGED slp
    /\ UNCHANGED RaceFrame
    /\ UNCHANGED mm_vars

\* sleep: current_process->block_reason = BLOCK_REASON_SLEEP
SleepSetReason ==
    /\ SleeperAt("sl_state")
    /\ process' = [ process EXCEPT ![current_process].block_reason = BLOCK_REASON_SLEEP ]
    /\ pc' = [ pc EXCEPT ![current_process] = "sl_reason" ]
    /\ hist' = Hist("sleep_reason", current_process, -1, PROCESS_UNUSED)
    /\ UNCHANGED slp
    /\ UNCHANGED RaceFrame
    /\ UNCHANGED mm_vars

\* sleep: schedule()
SleepSchedule ==
    /\ SleeperAt("sl_reason")
    /\ pc' = [ pc EXCEPT ![current_process] = "run" ]
    /\ CallSchedule(process, "sleep")
    /\ UNCHANGED << num_process, sys_timer_count, heap, sem_count, sem_lock, irq, slp,
                    born, waitq >>

RaceNext ==
    \/ \E ticks \in SleepArgs : SleepSetTime(ticks)
    \/ SleepSetState
    \/ SleepSetReason
    \/ SleepSchedule
    \/ TimerTick
    \/ TimerSchedule

SpecRace == RaceInit /\ [][RaceNext]_vars

(* ------------------------------------------------------------------------ *)
(* num_process++ and num_process-- as a load and a store, with the timer    *)
(* interrupt in between                                                     *)
(* ------------------------------------------------------------------------ *)

\* The heap after the kmalloc of the stack of the shell
ShellStack == kmalloc(kheap_init(HeapStart, HeapStart + heap_size), STACK_SIZE)

\* kernel() has created the shell at priority 1 and enters its idle loop
\* (kernel.c:91-108)
CountInit ==
    /\ process = [ InitTable EXCEPT ![1] = SetupPcb(@, 1, 1, ShellStack.ptr) ]
    /\ current_process = 0
    /\ num_process = 2
    /\ heap = ShellStack.heap
    /\ InitRest

\* What the statements of create_process and free_zombie leave unchanged
CountFrame == << current_process, need_reschedule, sys_timer_count, sem_count, sem_lock,
                 irq, run_ticks, waitq, mem_vars >>

\* The lowest slot from i on that holds a ZOMBIE, -1 when there is none
RECURSIVE FindZombie(_, _)
FindZombie(p, i) ==
    IF i >= MAX_PROCESS THEN -1
    ELSE IF p[i].state = PROCESS_ZOMBIE THEN i
    ELSE FindZombie(p, i + 1)

\* create_process called by the shell or by a task, up to the load of
\* num_process++ (process.c:79-128); the failures return before it
CreateLoad(priority) ==
    /\ AtWork
    /\ current_process # 0
    /\ LET pid == FindUnused(process, 0)
           m   == kmalloc(heap, STACK_SIZE)
       IN  IF pid = -1
           THEN /\ hist' = Hist("create_full", current_process, -1, PROCESS_UNUSED)
                /\ UNCHANGED << process, heap, born, slp, pc, reg >>
           ELSE IF m.ptr = 0
           THEN /\ hist' = Hist("create_nomem", current_process, -1, PROCESS_UNUSED)
                /\ heap' = m.heap
                /\ UNCHANGED << process, born, slp, pc, reg >>
           ELSE /\ process' = [ process EXCEPT ![pid] = SetupPcb(@, pid, priority, m.ptr) ]
                /\ heap' = m.heap
                /\ born' = [ born EXCEPT ![pid] = priority ]
                /\ slp' = [ slp EXCEPT ![pid] = NoSleep ]
                /\ reg' = [ reg EXCEPT ![current_process] = num_process ]
                /\ pc' = [ pc EXCEPT ![current_process] = "np_inc" ]
                /\ hist' = Hist("create_load", current_process, pid, PROCESS_UNUSED)
    /\ UNCHANGED num_process
    /\ UNCHANGED CountFrame

\* create_process: the store of num_process++ (process.c:128), and the return
CreateStore ==
    /\ irq = "none"
    /\ pc[current_process] = "np_inc"
    /\ num_process' = reg[current_process] + 1
    /\ pc' = [ pc EXCEPT ![current_process] = "run" ]
    /\ hist' = Hist("create", current_process, -1, PROCESS_UNUSED)
    /\ UNCHANGED << process, heap, born, slp, reg >>
    /\ UNCHANGED CountFrame

\* free_zombie in the idle loop of the kernel: the loop reaches the next
\* ZOMBIE, frees its stack, marks the slot UNUSED and loads num_process for
\* num_process-- (process.c:244-258)
ReapLoad ==
    /\ AtWork
    /\ current_process = 0
    /\ LET i == FindZombie(process, 0)
       IN  /\ i # -1
           /\ process' = [ process EXCEPT ![i].stack_addr = 0, ![i].state = PROCESS_UNUSED ]
           /\ heap' = IF process[i].stack_addr # 0 THEN kfree(heap, process[i].stack_addr)
                      ELSE heap
           /\ hist' = Hist("reap_load", current_process, i, PROCESS_ZOMBIE)
    /\ reg' = [ reg EXCEPT ![0] = num_process ]
    /\ pc' = [ pc EXCEPT ![0] = "np_dec" ]
    /\ UNCHANGED << num_process, born, slp >>
    /\ UNCHANGED CountFrame

\* free_zombie: the store of num_process-- (process.c:258)
ReapStore ==
    /\ irq = "none"
    /\ current_process = 0
    /\ pc[0] = "np_dec"
    /\ num_process' = reg[0] - 1
    /\ pc' = [ pc EXCEPT ![0] = "run" ]
    /\ hist' = Hist("free_zombie", current_process, -1, PROCESS_UNUSED)
    /\ UNCHANGED << process, heap, born, slp, reg >>
    /\ UNCHANGED CountFrame

CountNext ==
    \/ \E priority \in Priorities : CreateLoad(priority)
    \/ CreateStore
    \/ ReapLoad
    \/ ReapStore
    \/ \E ticks \in SleepArgs : Sleep(ticks)
    \/ Exit
    \/ TimerTick
    \/ TimerSchedule

SpecCount == CountInit /\ [][CountNext]_vars

(* ------------------------------------------------------------------------ *)
(* Properties of the process table and the scheduler                        *)
(* ------------------------------------------------------------------------ *)

Running == { i \in Slots : process[i].state = PROCESS_RUNNING }

Asleep(i) ==
    process[i].state = PROCESS_BLOCKED /\ process[i].block_reason = BLOCK_REASON_SLEEP

C8_QuantumFlag ==
    (irq = "tick" /\ process[current_process].pid > 0
                  /\ process[current_process].state = PROCESS_RUNNING)
        => (need_reschedule = 1 <=> run_ticks = DEFAULT_QUANTUM)

\* C9: a process created at priority 10 that has never slept is not the
\* running process any more once DEFAULT_QUANTUM ticks have elapsed since it
\* was switched in.
C9_Preempted ==
    \A i \in Slots :
        (irq = "none" /\ current_process = i /\ born[i] = 10 /\ slp[i] = NoSleep)
            => run_ticks < DEFAULT_QUANTUM

\* C9 witness: the timer interrupt has switched such a process out
C9_Witness ==
    /\ hist.op = "irq_schedule"
    /\ born[hist.caller] = 10
    /\ slp[hist.caller] = NoSleep
    /\ current_process # hist.caller
    /\ process[hist.caller].state = PROCESS_READY


Runnable(p) == { i \in Slots : p[i].state \in { PROCESS_READY, PROCESS_RUNNING } }

\* C2 (as claimed): whatever the table holds, the PCB schedule() makes
\* current was READY or RUNNING when it was chosen.
C2_SelectsRunnable ==
    hist.op = "schedule" => hist.chosen_state \in { PROCESS_READY, PROCESS_RUNNING }

\* C2 (amended): the PCB schedule() makes current was READY or RUNNING when
\* it was chosen, unless no PCB at all was READY or RUNNING: then slot 0 is
\* taken, whatever its state, and is made runnable.
C2_SelectsRunnableOrFallback ==
    [][ hist'.op = "schedule" =>
            \/ hist'.chosen_state \in { PROCESS_READY, PROCESS_RUNNING }
            \/ /\ Runnable(process) = {}
               /\ current_process' = 0
               /\ 0 \in Runnable(process') ]_vars

\* C2 witness: a READY process of priority 10 was chosen although a BLOCKED
\* one has priority 0
C2_Witness ==
    /\ hist.op = "schedule"
    /\ hist.chosen_state = PROCESS_READY
    /\ process[current_process].priority = 10
    /\ \E j \in Slots : process[j].state = PROCESS_BLOCKED /\ process[j].priority = 0

\* C10 (as claimed): with schedule() called forever among always-runnable
\* processes, every READY process is eventually selected to run.
C10_NoStarvation ==
    \A i \in Slots : (process[i].state = PROCESS_READY) ~> (current_process = i)

(* ------------------------------------------------------------------------ *)
(* Properties of the semaphore                                              *)
(* ------------------------------------------------------------------------ *)

\* The processes between a returned sem_wait and the end of their sem_signal
Holders == { i \in Slots : pc[i] \in { "cs", "ss_locked", "ss_inc" } }

\* C3: for a semaphore initialised to 1, at most one process is between a
\* returned sem_wait and its matching sem_signal.
C3_MutualExclusion == Cardinality(Holders) <= 1

\* C3 witness: one process holds the semaphore while another one has tested
\* the count, found no unit and given up the CPU
C3_Witness ==
    \E i, j \in Slots :
        /\ i # j
        /\ pc[i] = "cs"
        /\ pc[j] = "sw_retry"
        /\ sem_count = 0

\* Process i has found count = 0 in its sem_wait and has not returned since
Waiting(i) == \E k \in 1 .. Len(waitq) : waitq[k] = i

\* C4 (as claimed): a waiting process that obtains the unit in sem_wait is
\* the one that has been waiting longest.
C4_Fifo ==
    \A i \in Slots :
        (pc[i] = "sw_got" /\ Waiting(i)) => Head(waitq) = i

\* C5 (as claimed): a process whose sem_wait found count = 0 leaves the CPU
\* in state BLOCKED with block reason WAIT.
C5_BlocksWaiter ==
    hist.op = "sem_wait_schedule" =>
        /\ process[hist.caller].state = PROCESS_BLOCKED
        /\ process[hist.caller].block_reason = BLOCK_REASON_WAIT

\* C6 (as claimed): a sem_signal made while some process is waiting leaves
\* count unchanged.
C6_HandOff ==
    [][ ( /\ \E i \in Slots : pc[i] = "ss_locked" /\ pc'[i] = "ss_inc"
          /\ waitq # << >> ) => sem_count' = sem_count ]_vars

(* ------------------------------------------------------------------------ *)
(* Properties of the selection and of the process lifecycle                 *)
(* ------------------------------------------------------------------------ *)

\* C11: among the PCBs that are READY or RUNNING, schedule() selects the one
\* with the smallest priority value after the aging step, and among equal
\* priorities the one with the lowest slot index.
C11_SmallestPriorityLowestIndex ==
    [][ hist'.op = "schedule" =>
            LET aged == AgeAll(process, current_process)
            IN  Runnable(aged) # {} =>
                    /\ current_process' \in Runnable(aged)
                    /\ \A j \in Runnable(aged) :
                          \/ aged[current_process'].priority < aged[j].priority
                          \/ /\ aged[current_process'].priority = aged[j].priority
                             /\ current_process' <= j ]_vars

\* C11 witness: slot 1 was selected at priority 0 (now 2 with the penalty)
\* although slot 2 is READY at priority 0 too, and slot 0 is READY at the
\* priority 9 it was aged to
C11_Witness ==
    /\ hist.op = "schedule"
    /\ current_process = 1
    /\ process[1].priority = 2
    /\ process[2].state = PROCESS_READY
    /\ process[2].priority = 0
    /\ process[0].state = PROCESS_READY
    /\ process[0].priority = 9

\* The operations of create_process recorded in hist
CreateOps == { "create", "create_full", "create_nomem" }

\* No slot of table p is UNUSED
TableFull(p) == \A i \in Slots : p[i].state # PROCESS_UNUSED

\* No free block of heap h can hold a process stack
NoStackRoom(h) == \A k \in 1 .. Len(h) : ~(h[k].is_free /\ h[k].size >= STACK_SIZE)

\* C12: create_process fails exactly when no slot is UNUSED or no free block
\* can hold the stack, and a failed call leaves the process table,
\* num_process and the heap block list as they were.
C12_FailureExactAndClean ==
    [][ hist'.op \in CreateOps =>
            /\ hist'.op # "create" <=> (TableFull(process) \/ NoStackRoom(heap))
            /\ hist'.op # "create" =>
                   /\ process' = process
                   /\ num_process' = num_process
                   /\ heap' = heap ]_vars

\* C12 witness: a call has failed for lack of stack memory while a slot was
\* UNUSED, after two processes were created
C12_Witness ==
    /\ hist.op = "create_nomem"
    /\ ~TableFull(process)
    /\ NoStackRoom(heap)
    /\ num_process = 3

\* The lowest index of an UNUSED slot of table p (there is one)
LowestUnused(p) ==
    CHOOSE i \in Slots :
        /\ p[i].state = PROCESS_UNUSED
        /\ \A j \in Slots : j < i => p[j].state # PROCESS_UNUSED

\* What C13 says of a successful create_process, but for the quantum: the
\* lowest UNUSED slot is taken, its index is the pid returned, the PCB is
\* READY with block reason NONE, the live count grows by one and no other
\* slot changes
CreateTakesLowest ==
    LET pid == LowestUnused(process)
    IN  /\ hist'.chosen = pid
        /\ process'[pid].pid = pid
        /\ process'[pid].state = PROCESS_READY
        /\ process'[pid].block_reason = BLOCK_REASON_NONE
        /\ num_process' = num_process + 1
        /\ \A j \in Slots : j # pid => process'[j] = process[j]

\* C13 (as claimed): a successful create_process takes the lowest UNUSED
\* slot and leaves its PCB READY with quantum 0 and block reason NONE, also
\* when the slot was used before; the live count grows by one and no other
\* slot changes.
C13_CreateQuantumZero ==
    [][ hist'.op = "create" =>
            /\ CreateTakesLowest
            /\ process'[LowestUnused(process)].quantum = 0 ]_vars

\* C13 (amended): as above, but the quantum of the PCB is the one the slot
\* held before the call: 0 in a slot never used, and what the previous
\* process left in a reused slot.
C13_CreateKeepsQuantum ==
    [][ hist'.op = "create" =>
            /\ CreateTakesLowest
            /\ process'[LowestUnused(process)].quantum
                   = process[LowestUnused(process)].quantum ]_vars

\* C13 witness: the slot created last was used before, and the new PCB holds
\* the quantum of the process that exited
C13_Witness ==
    /\ hist.op = "create"
    /\ process[hist.chosen].state = PROCESS_READY
    /\ process[hist.chosen].quantum = DEFAULT_QUANTUM
    /\ process[hist.chosen].priority = born[hist.chosen]

\* C14: exit() leaves its caller ZOMBIE and not running; a ZOMBIE slot is
\* never selected by schedule() and is changed by no operation but
\* free_zombie, which makes it UNUSED.
C14_ZombieStays ==
    [][ /\ hist'.op = "exit" =>
               /\ process'[hist'.caller].state = PROCESS_ZOMBIE
               /\ current_process' # hist'.caller
        /\ \A i \in Slots :
               process[i].state = PROCESS_ZOMBIE =>
                   /\ current_process' # i
                   /\ \/ process'[i] = process[i]
                      \/ /\ hist'.op = "free_zombie"
                         /\ process'[i].state = PROCESS_UNUSED ]_vars

\* C14 witness: the timer interrupt has selected a process although a ZOMBIE
\* has a smaller priority value than the selected process had
C14_Witness ==
    /\ hist.op = "irq_schedule"
    /\ \E i \in Slots :
           /\ process[i].state = PROCESS_ZOMBIE
           /\ process[i].priority + 2 < process[current_process].priority

\* The slots of table p that are ZOMBIE
Zombies(p) == { i \in Slots : p[i].state = PROCESS_ZOMBIE }

\* ptr is the payload of a block of heap h that is allocated
Allocated(h, ptr) ==
    \E k \in 1 .. Len(h) : h[k].addr = ptr - HEADER_SIZE /\ ~h[k].is_free

\* Number of allocated blocks of heap h
UsedBlocks(h) == Cardinality({ k \in 1 .. Len(h) : ~h[k].is_free })

\* C15: free_zombie makes every ZOMBIE slot UNUSED, releases the stack of
\* each of them, which was allocated until then and is owned by no other
\* slot (so nothing is freed twice), decrements the live count once per
\* reaped slot, and leaves the other slots and their stacks untouched.
C15_ReapOnce ==
    [][ hist'.op = "free_zombie" =>
            LET Z == Zombies(process)
            IN  /\ \A i \in Z :
                       /\ process'[i].state = PROCESS_UNUSED
                       /\ process'[i].stack_addr = 0
                       /\ Allocated(heap, process[i].stack_addr)
                       /\ ~Allocated(heap', process[i].stack_addr)
                       /\ \A j \in Slots :
                              (j # i /\ process[j].state # PROCESS_UNUSED)
                                  => process[j].stack_addr # process[i].stack_addr
                /\ \A i \in Slots \ Z :
                       /\ process'[i] = process[i]
                       /\ (process[i].state # PROCESS_UNUSED /\ i # 0)
                              => Allocated(heap', process[i].stack_addr)
                /\ num_process' = num_process - Cardinality(Z)
                /\ UsedBlocks(heap') = UsedBlocks(heap) - Cardinality(Z) ]_vars

\* C15 witness: after a free_zombie two slots that held processes are UNUSED
\* again, and the only stack left allocated is that of a third process,
\* still alive
C15_Witness ==
    /\ hist.op = "free_zombie"
    /\ num_process = 2
    /\ UsedBlocks(heap) = 1
    /\ \E i, j, k \in Slots :
           /\ i # j
           /\ process[i].state = PROCESS_UNUSED /\ born[i] # -1
           /\ process[j].state = PROCESS_UNUSED /\ born[j] # -1
           /\ process[k].state = PROCESS_READY /\ k # 0

\* Bytes of the region heap h was initialised on: the end of its last block
HeapRegion(h) == h[Len(h)].addr + HEADER_SIZE + h[Len(h)].size - HeapStart

\* Every slot a process can be created in has held a process
AllSlotsUsedOnce == \A i \in Slots : i # 0 => born[i] # -1

\* C16: once the table has been filled to capacity, with a heap that holds
\* a stack per slot, a create_process called while a slot is UNUSED again
\* (its process has exited and was reaped) succeeds: it returns the index of
\* a slot that was UNUSED and gets its stack from the memory of the reaped
\* processes.
C16_ReuseAfterReap ==
    [][ ( /\ hist'.op \in CreateOps
          /\ AllSlotsUsedOnce
          /\ ~TableFull(process)
          /\ HeapRegion(heap) >= (MAX_PROCESS - 1) * (STACK_SIZE + HEADER_SIZE) ) =>
            /\ hist'.op = "create"
            /\ hist'.chosen \in Slots
            /\ process[hist'.chosen].state = PROCESS_UNUSED
            /\ process'[hist'.chosen].state = PROCESS_READY
            /\ ~Allocated(heap, process'[hist'.chosen].stack_addr)
            /\ Allocated(heap', process'[hist'.chosen].stack_addr) ]_vars

\* C16 witness: every slot has held a process, all of them have exited and
\* were reaped, and create_process has just succeeded in slot 1
C16_Witness ==
    /\ hist.op = "create"
    /\ hist.chosen = 1
    /\ process[1].state = PROCESS_READY
    /\ AllSlotsUsedOnce
    /\ \A i \in Slots : i > 1 => process[i].state = PROCESS_UNUSED
    /\ UsedBlocks(heap) = 1

(* ------------------------------------------------------------------------ *)
(* Properties of the physical memory manager                                *)
(* ------------------------------------------------------------------------ *)

\* pmm_init has been called (every base it is given here is non-zero)
PmmInitialised == phys_mem_start \in PmmBases

\* C17: after pmm_init, get_free_page never returns an address that it
\* returned earlier and that has not been passed to free_page since (held is
\* the set of those addresses, less the ones whose page was freed through
\* another of its addresses)
C17_NoDoubleAllocation ==
    [][ (PmmInitialised /\ hist'.op = "get_free_page") => hist'.chosen \notin held ]_vars

\* The page get_free_page has just returned
Returned(i) == hist.op = "get_free_page" /\ PageAddr(phys_mem_start, i) = hist.chosen

\* C18: the page get_free_page returns reads as zero, whatever was written
\* into it before: no run hands its next owner anything but zeroes, so two
\* runs that differ in the data written hand over the same contents
C18_ReturnedPageZero ==
    \A i \in Pages : Returned(i) => page_data[i] = 0

\* C18 witness: get_free_page has returned a page a previous owner wrote into
C18_Witness ==
    \E i \in Pages : Returned(i) /\ written[i] # 0 /\ page_data[i] = 0

\* Every page of the bitmap is allocated
AllAllocated(m) == \A i \in Pages : m[i] = 1

\* C19: get_free_page returns 0 when and only when every page is allocated:
\* a call that allocates a page returns a non-zero address, for every base the
\* memory manager may hold, and a call that finds no page returns 0
C19_SentinelOnlyWhenFull ==
    /\ hist.op = "get_free_page" => hist.chosen # 0
    /\ hist.op = "get_free_page_oom" => (hist.chosen = 0 /\ AllAllocated(mem_map))

\* Address p is inside the managed region
InRegion(start, p) == Offset(start, p) < TOTAL_PAGES * PAGE_SIZE

\* The bitmap free_page must leave for argument p: unchanged for an address
\* outside the region, the bit of the page that holds p cleared otherwise
FreePageExpected(m, start, p) ==
    IF InRegion(start, p) THEN [ m EXCEPT ![PageOf(start, p)] = 0 ] ELSE m

\* C20: free_page with an address outside the managed region leaves the
\* bitmap unchanged; with an address inside the region it clears the bit of
\* the page that holds the address and no other bit
C20_FreePageInRange ==
    [][ hist'.op = "free_page"
            => mem_map' = FreePageExpected(mem_map, phys_mem_start, hist'.chosen) ]_vars

(* ------------------------------------------------------------------------ *)
(* Properties of the heap                                                   *)
(* ------------------------------------------------------------------------ *)

\* The bytes of a live allocation: [ptr, ptr + requested size)
Range(a) == { x \in a.ptr .. (a.ptr + a.size - 1) : TRUE }

\* First address of the managed region and first address beyond it
HeapBase(h) == h[1].addr
HeapEnd(h) == h[Len(h)].addr + HEADER_SIZE + h[Len(h)].size

\* The bytes of the block headers of the list
HeaderBytes(h) ==
    UNION { h[k].addr .. (h[k].addr + HEADER_SIZE - 1) : k \in 1 .. Len(h) }

\* C21: the byte ranges of two allocations that are live at the same time
\* are disjoint, every live range lies inside the managed region, and no
\* live range contains a byte of a block header
C21_LiveRangesDisjoint ==
    /\ \A a, b \in live : a # b => Range(a) \cap Range(b) = {}
    /\ \A a \in live : /\ a.ptr >= HeapBase(heap)
                       /\ a.ptr + a.size <= HeapEnd(heap)
                       /\ Range(a) \cap HeaderBytes(heap) = {}

\* C21 witness: three allocations are live, one of them behind a block that
\* was freed, after a kfree
C21_Witness ==
    /\ hist.op = "kfree"
    /\ Cardinality(live) >= 3
    /\ \E k \in 1 .. Len(heap) : /\ heap[k].is_free
                                 /\ \E a \in live : a.ptr > heap[k].addr /\ a.size > 0

\* Bytes of the region that are not free payload: every header, and the
\* payload of the blocks in use, from block k on
RECURSIVE OccupiedFrom(_, _)
OccupiedFrom(h, k) ==
    IF k > Len(h) THEN 0
    ELSE HEADER_SIZE + (IF h[k].is_free THEN 0 ELSE h[k].size) + OccupiedFrom(h, k + 1)

Occupied(h) == OccupiedFrom(h, 1)

\* C22: a kmalloc(s) followed by kfree of the pointer it returned, from any
\* reachable heap, leaves no more blocks and no more occupied bytes than
\* there were before it, and the next kmalloc(s) returns the same address
\* again: repeating the pair never grows the heap's consumption
C22_RepeatStable ==
    [][ hist'.op = "kmalloc_kfree"
            => /\ Len(heap') <= Len(heap)
               /\ Occupied(heap') <= Occupied(heap)
               /\ kmalloc(heap', last_req').ptr = hist'.chosen ]_vars

\* C22 witness: the pair has run on a fragmented heap: it was served from a
\* block behind a free block that was too small, with allocations live
C22_Witness ==
    /\ hist.op = "kmalloc_kfree"
    /\ hist.chosen # 0
    /\ live # {}
    /\ \E k \in 1 .. Len(heap) : heap[k].is_free /\ heap[k].addr + HEADER_SIZE < hist.chosen

(* ------------------------------------------------------------------------ *)
(* Properties of demand paging                                              *)
(* ------------------------------------------------------------------------ *)

\* Virtual pages that no entry of the table of mem_init maps
Unmapped == { v \in VAs : ~Translate(ttbr0, [ i \in Pages |-> EmptyTable ], v).ok }

\* Process i has taken a data abort on an unmapped page, handle_fault has
\* returned and the write is about to be retried
Retrying(i) == pending[i] # NoAccess /\ pending[i].vpn \in Unmapped

\* C23: when handle_fault has returned from the fault of a write to an
\* unmapped page, it has run once for that write, and the page is mapped, in
\* the table the MMU walks, to a page of the physical memory manager that
\* was allocated: the retried write goes through
C23_OneFaultMapsPage ==
    \A i \in Slots :
        Retrying(i) => /\ nfault[i] = 1
                       /\ Allowed(ttbr0, pt, pending[i].vpn, pending[i].el)
                       /\ Translate(ttbr0, pt, pending[i].vpn).d.addr \in held

\* handle_fault has just run
Faulted == hist.op \in { "fault_return", "fault_exit" }

\* The fault handle_fault has just run for was a protection violation (the
\* walk ends at a descriptor that the exception level may not use) or an
\* access to address 0
ProtectionOrNull ==
    /\ Faulted
    /\ last_fault.ec \in { EC_DABT_EL1, EC_DABT_EL0 }
    /\ \/ last_fault.vpn = VA_NULL
       \/ Translate(ttbr0, pt, last_fault.vpn).ok

\* C24: for a protection violation or an access to address 0, handle_fault
\* allocates no page, writes no table and terminates the faulting process
C24_InvalidAccessKills ==
    [][ ProtectionOrNull'
            => /\ mem_map' = mem_map
               /\ kernel_pgd' = kernel_pgd
               /\ pt' = pt
               /\ hist'.op = "fault_exit"
               /\ process'[hist'.caller].state = PROCESS_ZOMBIE ]_vars

\* handle_fault has just run for a data abort and got no page from
\* get_free_page
OomFault == hist.op = "fault_exit" /\ last_fault.ec \in { EC_DABT_EL1, EC_DABT_EL0 }

\* C25 as stated: when get_free_page returns none in a data abort,
\* handle_fault adds no mapping, the current process is ZOMBIE, the kernel
\* runs on, and the state of every other process is what it was
C25_OomOthersUnchanged ==
    [][ OomFault'
            => /\ kernel_pgd' = kernel_pgd /\ pt' = pt
               /\ process'[hist'.caller].state = PROCESS_ZOMBIE
               /\ \A i \in Slots \ { hist'.caller } :
                      process'[i].state = process[i].state ]_vars

\* C25, amended: when get_free_page returns none in a data abort,
\* handle_fault adds no mapping and the current process is ZOMBIE; the
\* schedule() of exit() makes one READY process RUNNING, and the state of
\* every other process is what it was
C25_OomKillsCurrentOnly ==
    [][ OomFault'
            => /\ kernel_pgd' = kernel_pgd /\ pt' = pt
               /\ process'[hist'.caller].state = PROCESS_ZOMBIE
               /\ process'[current_process'].state = PROCESS_RUNNING
               /\ process[current_process'].state = PROCESS_READY
               /\ \A i \in Slots \ { hist'.caller, current_process' } :
                      process'[i].state = process[i].state ]_vars

\* C25 witness: every page is allocated, a data abort has ended in exit(),
\* and a process that was not selected is still READY
C25_Witness ==
    /\ OomFault
    /\ AllAllocated(mem_map)
    /\ process[hist.caller].state = PROCESS_ZOMBIE
    /\ \E i \in Slots \ { hist.caller, current_process } : process[i].state = PROCESS_READY

\* C26: handle_fault returns for the access to be retried only when map_page
\* has written the leaf descriptor of the page: when map_page gets no page
\* for an intermediate table, the faulting process is terminated instead
C26_MapFailureKills ==
    hist.op = "fault_return" => Translate(kernel_pgd, pt, last_fault.vpn).ok


(* ------------------------------------------------------------------------ *)
(* Properties of aging, of the penalty and of the tick                      *)
(* ------------------------------------------------------------------------ *)

\* The priority aging leaves a PCB of table p with, cur being current
AgedPriority(p, cur, i) ==
    IF p[i].state = PROCESS_READY /\ i # cur
    THEN IF p[i].priority >= 1 THEN p[i].priority - 1 ELSE 0
    ELSE p[i].priority

\* C27: a call of schedule() lowers by exactly 1, and never below 0, the
\* priority of every READY process other than the current one and lowers the
\* priority of no other process: a process that is not selected leaves the
\* call with its aged priority, which for a READY one is never above the
\* priority it had, and the selected one with its aged priority or more.
C27_AgingLowersReadyByOne ==
    [][ hist'.op = "schedule" =>
            \A i \in Slots :
                LET aged == AgedPriority(process, current_process, i)
                IN  /\ aged >= 0
                    /\ i # current_process' => process'[i].priority = aged
                    /\ i = current_process' => process'[i].priority >= aged
                    /\ (i # current_process' /\ process[i].state = PROCESS_READY)
                           => process'[i].priority <= process[i].priority ]_vars

\* C27 witness: after a call slot 1 is current, slot 2, READY and not
\* selected, is at the priority 9 it was aged to from 10, slot 3, READY at 0,
\* stayed at 0, and slot 0, BLOCKED, kept its priority 10
C27_Witness ==
    /\ hist.op = "schedule"
    /\ hist.caller = 0
    /\ current_process = 1
    /\ process[2].state = PROCESS_READY
    /\ process[2].priority = 9
    /\ process[3].state = PROCESS_READY
    /\ process[3].priority = 0
    /\ process[0].state = PROCESS_BLOCKED
    /\ process[0].priority = 10


\* The operations recorded in hist that are calls of schedule()
ScheduleOps ==
    { "schedule", "irq_schedule", "sleep", "exit", "sem_wait_schedule", "fault_exit" }

\* The fixed penalty of a selection
PENALTY == 2

\* The priority at and above which a selected process gets no penalty
PENALTY_LIMIT == 10

\* C28 (as claimed): every time schedule() selects a process, whatever the
\* priority the process has at that moment (its aged priority), its priority
\* after the call is that priority plus the fixed penalty.
C28_PenaltyAlways ==
    [][ hist'.op \in ScheduleOps =>
            process'[current_process'].priority =
                AgedPriority(process, current_process, current_process') + PENALTY ]_vars

\* C28 (amended): every time schedule() selects a process whose priority at
\* that moment is below 10, its priority after the call is that priority plus
\* the fixed penalty; a process selected at a priority of 10 or more keeps
\* that priority.
C28_PenaltyBelowLimit ==
    [][ hist'.op \in ScheduleOps =>
            LET aged == AgedPriority(process, current_process, current_process')
            IN  process'[current_process'].priority =
                    IF aged < PENALTY_LIMIT THEN aged + PENALTY ELSE aged ]_vars

\* C28 witness: the timer interrupt selected slot 1, READY at priority 10 and
\* aged to 9, and left it at priority 11
C28_Witness ==
    /\ hist.op = "irq_schedule"
    /\ hist.chosen = 1
    /\ hist.caller # 1
    /\ process[1].priority = 11


\* Priorities the callers of create_process use (kernel.c:91, shell.c:216,
\* tests.c:159-182)
CreatePriorities == {0, 1, 10, 20}

\* The kernel and the processes it runs, created with any of these priorities
PrioNext ==
    \/ \E priority \in CreatePriorities : CreateProcess(priority)
    \/ \E ticks \in SleepArgs : Sleep(ticks)
    \/ Exit
    \/ FreeZombie
    \/ TimerTick
    \/ TimerSchedule

SpecPrio == Init /\ [][PrioNext]_vars

\* The priority a PCB was created with: 0 for the kernel (process.c, init of
\* slot 0), the argument of create_process for the others
CreatedWith(i) == IF i = 0 THEN 0 ELSE born[i]

\* The ceiling the penalty can take a priority to
PRIORITY_CEILING == 11

\* C29: a process created with priority p >= 0 has a priority within
\* 0..max(p, 11) in every reachable state.
C29_PriorityWithinBounds ==
    \A i \in Slots :
        (i = 0 \/ born[i] >= 0) =>
            /\ process[i].priority >= 0
            /\ process[i].priority <=
                   (IF CreatedWith(i) > PRIORITY_CEILING THEN CreatedWith(i)
                    ELSE PRIORITY_CEILING)

\* C29 witness: a process created with priority 10 has reached the ceiling
\* 11, and another one, created with priority 20, was aged below 20
C29_Witness ==
    \E i, j \in Slots :
        /\ born[i] = 10 /\ process[i].priority = PRIORITY_CEILING
        /\ born[j] = 20 /\ process[j].priority < 20
        /\ process[j].state = PROCESS_READY


\* The current process is RUNNING and is not the idle process
TickCharged == process[current_process].state = PROCESS_RUNNING /\ current_process # 0

\* C30: timer_tick() switches no context: the current process stays and no
\* PCB becomes RUNNING or stops being so; it decrements the quantum of the
\* current process when that one is RUNNING and not the idle process, and
\* raises need_reschedule exactly when, besides, the decremented quantum is at
\* or below zero; with the idle process current no quantum changes and the
\* flag stays as it was.
C30_TickRaisesFlagOnly ==
    [][ hist'.op = "timer_tick" =>
            /\ current_process' = current_process
            /\ \A i \in Slots :
                   /\ (process'[i].state = PROCESS_RUNNING)
                          <=> (process[i].state = PROCESS_RUNNING)
                   /\ process'[i].quantum =
                          IF i = current_process /\ TickCharged
                          THEN process[i].quantum - 1
                          ELSE process[i].quantum
            /\ need_reschedule' =
                   IF TickCharged /\ process'[current_process].quantum <= 0
                   THEN 1
                   ELSE need_reschedule
            /\ current_process = 0 =>
                   /\ need_reschedule' = need_reschedule
                   /\ \A i \in Slots : process'[i].quantum = process[i].quantum ]_vars

\* C30 witness: the tick took the quantum of slot 1, current and RUNNING, to
\* 0 and raised the flag, while slot 2, woken by the same tick, is READY and
\* not current
C30_Witness ==
    /\ hist.op = "timer_tick"
    /\ sys_timer_count = 1
    /\ current_process = 1
    /\ process[1].state = PROCESS_RUNNING
    /\ process[1].quantum = 0
    /\ need_reschedule = 1
    /\ process[2].state = PROCESS_READY
    /\ process[2].wake_up_time = 1
    /\ process[0].quantum = DEFAULT_QUANTUM


(* ------------------------------------------------------------------------ *)
(* Properties of the timer interrupt, of the tables and of the heap list    *)
(* ------------------------------------------------------------------------ *)

\* C31: on the timer-interrupt path schedule() is invoked only when
\* timer_tick has raised need_reschedule, and schedule() leaves the flag
\* cleared.
C31_ScheduleOnlyWhenFlagged ==
    [][ hist'.op = "irq_schedule" => (need_reschedule = 1 /\ need_reschedule' = 0) ]_vars


\* PCB i sleeps and its wake-up time is at or below the tick count now
DueAt(p, i, now) ==
    /\ p[i].state = PROCESS_BLOCKED
    /\ p[i].block_reason = BLOCK_REASON_SLEEP
    /\ p[i].wake_up_time <= now

\* C32: timer_tick() makes READY, and clears the block reason of, exactly the
\* BLOCKED processes whose block reason is SLEEP and whose wake_up_time is at
\* or below the incremented tick counter; every other slot keeps its state
\* and its block reason.
C32_WakesExactlyDueSleepers ==
    [][ hist'.op = "timer_tick" =>
            \A i \in Slots :
                IF DueAt(process, i, sys_timer_count + 1)
                THEN /\ process'[i].state = PROCESS_READY
                     /\ process'[i].block_reason = BLOCK_REASON_NONE
                ELSE /\ process'[i].state = process[i].state
                     /\ process'[i].block_reason = process[i].block_reason ]_vars

\* C32 witness: the tick to count 1 woke slot 1, which slept until tick 1,
\* and left BLOCKED slot 2, which waits for a semaphore, and slot 3, which
\* sleeps until tick 2
C32_Witness ==
    /\ hist.op = "timer_tick"
    /\ sys_timer_count = 1
    /\ process[1].state = PROCESS_READY
    /\ process[1].wake_up_time = 1
    /\ process[1].block_reason = BLOCK_REASON_NONE
    /\ process[2].state = PROCESS_BLOCKED
    /\ process[2].block_reason = BLOCK_REASON_WAIT
    /\ process[2].wake_up_time = 0
    /\ process[3].state = PROCESS_BLOCKED
    /\ process[3].block_reason = BLOCK_REASON_SLEEP
    /\ process[3].wake_up_time = 2


\* The entry of level 1 for vpn is absent from table root
AbsentL1(root, vpn) == ~root[L1_INDEX(vpn)].valid

\* The entry of level 2 for vpn is absent: there is no table of level 2, or
\* its entry is not valid
AbsentL2(root, tables, vpn) ==
    \/ AbsentL1(root, vpn)
    \/ ~TableAt(tables, root[L1_INDEX(vpn)].addr)[L2_INDEX(vpn)].valid

\* The tables map_page has to allocate to map vpn
TablesNeeded(root, tables, vpn) ==
    (IF AbsentL1(root, vpn) THEN 1 ELSE 0) + (IF AbsentL2(root, tables, vpn) THEN 1 ELSE 0)

\* The pages this step takes from the physical memory manager
TakenNow == { i \in Pages : mem_map[i] = 0 /\ mem_map'[i] = 1 }

\* This step is a map_page that succeeds: get_free_page gave it every table
\* it asked for, none at address 0
MapSucceeds ==
    /\ hist'.op = "map_page"
    /\ Cardinality(TakenNow) = TablesNeeded(kernel_pgd, pt, last_fault'.vpn)
    /\ \A i \in TakenNow : PageAddr(phys_mem_start, i) # 0

\* C33: after a successful map_page(root, va, pa, flags) the walk of root for
\* va ends at a page descriptor holding pa and flags; a table is taken from
\* the physical memory manager only where the entry was absent, an entry that
\* was present still points to the same table, and the walk for every other
\* virtual page ends as before.
C33_MapPageInstallsLeaf ==
    [][ MapSucceeds =>
            LET vpn == last_fault'.vpn
            IN  /\ Translate(kernel_pgd', pt', vpn) =
                       [ ok |-> TRUE,
                         d  |-> Descriptor(TRUE, TRUE, hist'.chosen, last_fault'.el = 0) ]
                /\ ~AbsentL1(kernel_pgd, vpn)
                       => kernel_pgd'[L1_INDEX(vpn)] = kernel_pgd[L1_INDEX(vpn)]
                /\ ~AbsentL2(kernel_pgd, pt, vpn)
                       => TableAt(pt', kernel_pgd[L1_INDEX(vpn)].addr)[L2_INDEX(vpn)] =
                              TableAt(pt, kernel_pgd[L1_INDEX(vpn)].addr)[L2_INDEX(vpn)]
                /\ \A v \in MapVAs \ { vpn } :
                       Translate(kernel_pgd', pt', v) = Translate(kernel_pgd, pt, v) ]_vars

\* C33 witness: VA_HIGH3 has just been mapped with one new table, of level
\* 3, under the table of level 2 that VA_HIGH, still mapped, already had
C33_Witness ==
    /\ hist.op = "map_page"
    /\ last_fault.vpn = VA_HIGH3
    /\ Translate(kernel_pgd, pt, VA_HIGH3).ok
    /\ Translate(kernel_pgd, pt, VA_HIGH3).d.addr = hist.chosen
    /\ Translate(kernel_pgd, pt, VA_HIGH).ok
    /\ Translate(kernel_pgd, pt, VA_HIGH).d.addr # hist.chosen
    /\ Cardinality({ i \in Pages : mem_map[i] = 1 }) = 3
    /\ PmmInitialised


\* start_addr as kheap_init aligns it
AlignedStart(s) == IF s % 16 # 0 THEN s + (16 - (s % 16)) ELSE s

\* C34: after kheap_init and any sequence of kmalloc calls and of kfree calls
\* on live pointers, the list starts at the aligned start of the region,
\* each block's header address plus the header size plus its payload size is
\* the header address of the next block (so addresses increase along the
\* list), and the last block ends at the end of the region.
C34_ListTilesRegion ==
    /\ Len(heap) >= 1
    /\ HeapBase(heap) \in { AlignedStart(s) : s \in HeapStarts }
    /\ \A k \in 1 .. (Len(heap) - 1) :
           /\ heap[k].addr + HEADER_SIZE + heap[k].size = heap[k + 1].addr
           /\ heap[k].addr < heap[k + 1].addr
    /\ HeapEnd(heap) = HeapStart + HeapSpan

\* C34 witness: after a kfree the list has four blocks, a free one between
\* two blocks in use and a free one at its end
C34_Witness ==
    /\ hist.op = "kfree"
    /\ Len(heap) = 4
    /\ ~heap[1].is_free
    /\ heap[2].is_free
    /\ heap[2].size > 16
    /\ ~heap[3].is_free
    /\ heap[4].is_free


\* Indices of the blocks of list h whose payload starts at ptr
BlocksAt(h, ptr) == { k \in 1 .. Len(h) : h[k].addr + HEADER_SIZE = ptr }

LockHolders == { i \in Slots : pc[i] \in { "sw_locked", "sw_dec", "sw_got", "sw_fail",
                                           "ss_locked", "ss_inc" } }

\* C36 (as claimed): at every schedule() call made from sem_wait sem_lock is
\* released, and sem_lock is released whenever sem_wait or sem_signal
\* returns.
C36_LockReleasedAtYield ==
    [][ /\ hist'.op = "sem_wait_schedule" => sem_lock = 0
        /\ hist'.op \in { "sem_wait_return", "sem_signal_return" } => sem_lock' = 0 ]_vars


\* C36 (amended): at every schedule() call made from sem_wait, and whenever
\* sem_wait or sem_signal returns, the calling process does not hold
\* sem_lock: the lock is free, or it is held by another process, which took
\* it and was preempted by the timer before its spin_unlock.
C36_CallerReleasedLock ==
    [][ /\ hist'.op = "sem_wait_schedule"
            => (sem_lock = 0 \/ LockHolders \ { hist'.caller } # {})
        /\ hist'.op \in { "sem_wait_return", "sem_signal_return" }
            => (sem_lock' = 0 \/ LockHolders' \ { hist'.caller } # {}) ]_vars

\* C36 witness: a process has called schedule() from sem_wait after its
\* spin_unlock, while another process, preempted, holds sem_lock
C36_Witness ==
    /\ hist.op = "sem_wait_schedule"
    /\ pc[hist.caller] = "sw_retry"
    /\ sem_lock = 1
    /\ LockHolders # {}
    /\ hist.caller \notin LockHolders


\* Process i is inside sleep(), between its first statement and schedule()
InSleep(i) == pc[i] \in { "sl_time", "sl_state", "sl_reason" }

\* C37: under every interleaving of the timer interrupt with the statements
\* of sleep(n), once a timer interrupt has found the tick counter at or
\* beyond the wake-up time of a caller, that caller is not left BLOCKED
\* behind another process (where nothing but a tick could wake it), and the
\* current process is RUNNING whenever it is not between the assignment of
\* its state in sleep() and the schedule() that follows.
C37_SleepSurvivesInterrupts ==
    /\ \A i \in Slots :
           (hist.op = "irq_schedule" /\ slp[i].T >= 0 /\ i # current_process
                /\ sys_timer_count >= process[i].wake_up_time)
               => process[i].state # PROCESS_BLOCKED
    /\ (irq = "none" /\ pc[current_process] \notin { "sl_state", "sl_reason" })
           => process[current_process].state = PROCESS_RUNNING

(* ------------------------------------------------------------------------ *)
(* Properties of the arithmetic of kmalloc                                  *)
(* ------------------------------------------------------------------------ *)

\* C38: for every request size of uint32_t, the rounding of kmalloc yields a
\* size that is not below the request, and a kmalloc that returns a pointer
\* returns a block in use whose payload capacity is at least the request
C38_CapacityCoversRequest ==
    hist.op = "kmalloc"
        => /\ AlignSize(last_req) >= last_req
           /\ hist.chosen # 0
                  => /\ \E k \in 1 .. Len(heap) : heap[k].addr + HEADER_SIZE = hist.chosen
                     /\ ~heap[BlockOf(heap, hist.chosen)].is_free
                     /\ heap[BlockOf(heap, hist.chosen)].size >= last_req

\* context.sp of a process: the top of its stack (process.c:126)
StackTop(pcb) == pcb.stack_addr + STACK_SIZE

\* C39: every pointer kmalloc returns is a multiple of 16, and so is the
\* initial stack pointer of every process create_process has set up
C39_PointersAligned ==
    /\ (hist.op \in { "kmalloc", "kmalloc_kfree" } /\ hist.chosen # 0)
           => hist.chosen % 16 = 0
    /\ \A i \in Slots :
           (process[i].state # PROCESS_UNUSED /\ process[i].stack_addr # 0)
               => /\ process[i].stack_addr % 16 = 0
                  /\ StackTop(process[i]) % 16 = 0

(* ------------------------------------------------------------------------ *)
(* Properties of the process count                                          *)
(* ------------------------------------------------------------------------ *)

\* The slots in use
UsedSlots == { i \in Slots : process[i].state # PROCESS_UNUSED }

\* C40: whenever no process is inside create_process or free_zombie,
\* num_process is the number of slots whose state is not UNUSED, and the pid
\* stored in every such slot is the index of the slot
C40_CountMatchesTable ==
    (\A i \in Slots : pc[i] \notin { "np_inc", "np_dec" })
        => /\ num_process = Cardinality(UsedSlots)
           /\ \A i \in UsedSlots : process[i].pid = i

====
